---- MODULE Spec2Model ----
(***************************************************************************)
(* Bookmark organizer (fhrdr/bookMarks): the ingestion, normalization and  *)
(* query pipeline of BookmarkAPI (src/js/api.js) with the helpers of       *)
(* src/js/utils.js it calls.                                               *)
(*                                                                         *)
(* Strings are sequences of characters; each character is a one-element    *)
(* TLA+ string.  A CJK character of the source is written as a token in    *)
(* angle brackets ("<gen>" is one character), and the scheme prefix of a   *)
(* URL as the single token "https://".                                     *)
(***************************************************************************)
EXTENDS Integers, Sequences, FiniteSets

VARIABLES
    bookmarks,    \* BookmarkAPI.bookmarks
    folders,      \* BookmarkAPI.folders
    isSupported,  \* BookmarkAPI.isSupported
    pc,           \* where the getBookmarks call in flight is suspended
    file,         \* the file picked in the dialog, while it is being read
    last,         \* the last call of the API: its input and its result, pending until it settles
    q,            \* the last query call: its arguments and its return value
    src,          \* the source document handed to a parser
    out,          \* what the parser returned
    app           \* the page of BookmarkManager: its fields, what it shows, its calls in flight

vars == <<bookmarks, folders, isSupported, pc, file, last, q, src, out, app>>

(***************************************************************************)
(* Text                                                                    *)
(***************************************************************************)

Range(s) == {s[i] : i \in 1..Len(s)}

UPPER == <<"A", "B", "C", "D", "E", "F", "G", "H", "I", "J", "K", "L", "M",
           "N", "O", "P", "Q", "R", "S", "T", "U", "V", "W", "X", "Y", "Z">>

LOWER == <<"a", "b", "c", "d", "e", "f", "g", "h", "i", "j", "k", "l", "m",
           "n", "o", "p", "q", "r", "s", "t", "u", "v", "w", "x", "y", "z">>

\* String.prototype.toLowerCase, one character
toLowerChar(c) ==
    IF \E i \in 1..Len(UPPER) : UPPER[i] = c
    THEN LOWER[CHOOSE i \in 1..Len(UPPER) : UPPER[i] = c]
    ELSE c

\* String.prototype.toLowerCase
toLowerCase(s) == [i \in 1..Len(s) |-> toLowerChar(s[i])]

WhiteSpace == {" ", "\t", "\n"}

\* String.prototype.trim: leading and trailing white space removed
trim(s) ==
    LET idx == {i \in 1..Len(s) : s[i] \notin WhiteSpace}
    IN  IF idx = {} THEN <<>>
        ELSE LET lo == CHOOSE i \in idx : \A j \in idx : i <= j
                 hi == CHOOSE i \in idx : \A j \in idx : j <= i
             IN  SubSeq(s, lo, hi)

\* String.prototype.includes: t occurs in s as a contiguous substring
includes(s, t) ==
    \E i \in 0..(Len(s) - Len(t)) : Len(t) <= Len(s) /\ SubSeq(s, i + 1, i + Len(t)) = t

\* String.prototype.endsWith
endsWith(s, t) ==
    /\ Len(t) <= Len(s)
    /\ SubSeq(s, Len(s) - Len(t) + 1, Len(s)) = t

\* Array.prototype.filter with the predicate given as the set of kept indexes
RECURSIVE FilterIdx(_, _, _)
FilterIdx(s, keep, i) ==
    IF i > Len(s) THEN <<>>
    ELSE (IF i \in keep THEN <<s[i]>> ELSE <<>>) \o FilterIdx(s, keep, i + 1)

\* ArrayUtils.unique without a key: [...new Set(arr)], first occurrences in order
unique(arr) ==
    FilterIdx(arr, {i \in 1..Len(arr) : \A j \in 1..(i - 1) : arr[j] # arr[i]}, 1)

(***************************************************************************)
(* An optional argument or field: undefined/null, or a value.              *)
(***************************************************************************)

Absent == [absent |-> TRUE]

Given(v) == [v |-> v]

IsAbsent(o) == "absent" \in DOMAIN o

\* No page of BookmarkManager: BookmarkAPI is used alone
NoApp == [absent |-> TRUE]

(***************************************************************************)
(* StringUtils.extractDomain                                               *)
(***************************************************************************)

SCHEME == "https://"

\* A scheme whose URLs have no host: "javascript:" (a bookmarklet), like
\* "mailto:" or "data:"
OPAQUE_SCHEME == "javascript:"

HostEnd == {"/", "?", "#"}

\* The characters of the authority of a trimmed URL string: from after the
\* scheme up to the first "/", "?" or "#".
HostOf(u) ==
    LET stops == {i \in 2..Len(u) : u[i] \in HostEnd}
        stop  == IF stops = {} THEN Len(u)
                 ELSE (CHOOSE i \in stops : \A j \in stops : i <= j) - 1
    IN  SubSeq(u, 2, stop)

\* new URL(url) succeeds: a scheme, then a non-empty host without white space
\* (the URL parser strips leading and trailing white space first), or a
\* scheme without host and anything after it.
IsURL(url) ==
    LET u == trim(url)
    IN  \/ Len(u) >= 1 /\ u[1] = OPAQUE_SCHEME
        \/ /\ Len(u) >= 2
           /\ u[1] = SCHEME
           /\ HostOf(u) # <<>>
           /\ Range(HostOf(u)) \cap (WhiteSpace \cup {SCHEME, OPAQUE_SCHEME}) = {}

\* new URL(url).hostname, lower-cased by the URL parser; empty for a URL
\* without host
hostname(url) ==
    IF trim(url)[1] = OPAQUE_SCHEME THEN <<>> ELSE toLowerCase(HostOf(trim(url)))

\* A faulty variant of extractDomain: nothing is returned for a string that
\* is no URL
extractDomainDropsRaw(url) == IF IsURL(url) THEN hostname(url) ELSE <<>>

\* try { return new URL(url).hostname } catch (e) { return url }
extractDomain(url) == IF IsURL(url) THEN hostname(url) ELSE url

(***************************************************************************)
(* BookmarkAPI.generateDescription / generateTags                          *)
(***************************************************************************)

\* `来自 ${domain} 的书签`
generateDescription(title, url) ==
    <<"<lai>", "<zi>", " ">> \o extractDomain(url) \o <<" ", "<de>", "<shu>", "<qian>">>

t_kaifa == <<"<kai>", "<fa>">>

t_biancheng == <<"<bian>", "<cheng>">>

t_shipin == <<"<shi>", "<pin>">>

t_wenda == <<"<wen>", "<da>">>

t_sousuo == <<"<sou>", "<suo>">>

t_gouwu == <<"<gou>", "<wu>">>

t_shejiao == <<"<she>", "<jiao>">>

t_wendang == <<"<wen>", "<dang>">>

t_jiaocheng == <<"<jiao>", "<cheng>">>

t_xinwen == <<"<xin>", "<wen>">>

t_boke == <<"<bo>", "<ke>">>

\* if (cond) tags.push(label)
PushIf(cond, label) == IF cond THEN <<label>> ELSE <<>>

\* The labels pushed by the domain rules, in rule order
DomainTags(domain) ==
    PushIf(includes(domain, <<"g", "i", "t", "h", "u", "b">>), t_kaifa)
    \o PushIf(includes(domain, <<"s", "t", "a", "c", "k", "o", "v", "e", "r", "f", "l", "o", "w">>), t_biancheng)
    \o PushIf(includes(domain, <<"y", "o", "u", "t", "u", "b", "e">>), t_shipin)
    \o PushIf(includes(domain, <<"b", "i", "l", "i", "b", "i", "l", "i">>), t_shipin)
    \o PushIf(includes(domain, <<"z", "h", "i", "h", "u">>), t_wenda)
    \o PushIf(includes(domain, <<"b", "a", "i", "d", "u">>)
              \/ includes(domain, <<"g", "o", "o", "g", "l", "e">>), t_sousuo)
    \o PushIf(includes(domain, <<"t", "a", "o", "b", "a", "o">>)
              \/ includes(domain, <<"j", "d">>), t_gouwu)
    \o PushIf(includes(domain, <<"w", "e", "i", "b", "o">>)
              \/ includes(domain, <<"t", "w", "i", "t", "t", "e", "r">>), t_shejiao)

\* The labels pushed by the title rules, in rule order
TitleTags(titleLower) ==
    PushIf(includes(titleLower, <<"d", "o", "c">>)
           \/ includes(titleLower, t_wendang), t_wendang)
    \o PushIf(includes(titleLower, <<"t", "u", "t", "o", "r", "i", "a", "l">>)
              \/ includes(titleLower, t_jiaocheng), t_jiaocheng)
    \o PushIf(includes(titleLower, <<"n", "e", "w", "s">>)
              \/ includes(titleLower, t_xinwen), t_xinwen)
    \o PushIf(includes(titleLower, <<"b", "l", "o", "g">>)
              \/ includes(titleLower, t_boke), t_boke)

\* generateTags raises a TypeError: title.toLowerCase() on an undefined title
generateTagsThrows(title) == IsAbsent(title)

\* A faulty variant of generateTags: the labels are returned as pushed
generateTagsAsPushed(title, url) ==
    DomainTags(extractDomain(url)) \o TitleTags(toLowerCase(title.v))

\* generateTags(title, url) for a title that is a string (title is optional)
generateTags(title, url) ==
    unique(DomainTags(extractDomain(url)) \o TitleTags(toLowerCase(title.v)))

(***************************************************************************)
(* Query engine: searchBookmarks, filterByFolder, filterByTag              *)
(***************************************************************************)

\* A faulty variant of TargetBookmarks: an empty array is taken for a missing one
TargetBookmarksEmptyIsMissing(arg, held) ==
    IF IsAbsent(arg) \/ arg = Given(<<>>) THEN held ELSE arg.v

\* const targetBookmarks = bookmarks || this.bookmarks  (an array is truthy, also when empty)
TargetBookmarks(arg, held) == IF IsAbsent(arg) THEN held ELSE arg.v

\* !s for an optional string: undefined, null or ""
Falsy(s) == IsAbsent(s) \/ s = Given(<<>>)

\* The predicate of the filter in searchBookmarks
SearchMatches(b, searchTerm) ==
    \/ includes(toLowerCase(b.title), searchTerm)
    \/ includes(toLowerCase(b.url), searchTerm)
    \/ includes(toLowerCase(b.description), searchTerm)
    \/ includes(toLowerCase(b.folder), searchTerm)
    \/ \E i \in 1..Len(b.tags) : includes(toLowerCase(b.tags[i]), searchTerm)

\* A faulty variant of searchBookmarks: the keyword is not trimmed before matching
searchBookmarksNoTrim(keyword, arg, held) ==
    LET target == TargetBookmarks(arg, held)
    IN  IF Falsy(keyword) \/ trim(keyword.v) = <<>>
        THEN target
        ELSE FilterIdx(target,
                       {i \in 1..Len(target) : SearchMatches(target[i], toLowerCase(keyword.v))}, 1)

\* A faulty variant of searchBookmarks: the result is sorted last-to-first
searchBookmarksReversed(keyword, arg, held) ==
    LET target == TargetBookmarks(arg, held)
        kept   == FilterIdx(target,
                            {i \in 1..Len(target) :
                                Falsy(keyword) \/ SearchMatches(target[i], trim(toLowerCase(keyword.v)))}, 1)
    IN  [i \in 1..Len(kept) |-> kept[Len(kept) + 1 - i]]

searchBookmarks(keyword, arg, held) ==
    LET target == TargetBookmarks(arg, held)
    IN  IF Falsy(keyword) \/ trim(keyword.v) = <<>>
        THEN target
        ELSE LET searchTerm == trim(toLowerCase(keyword.v))
             IN  FilterIdx(target,
                           {i \in 1..Len(target) : SearchMatches(target[i], searchTerm)}, 1)

\* A faulty variant of filterByFolder: a folder matches by prefix
filterByFolderPrefix(folderName, arg, held) ==
    LET target == TargetBookmarks(arg, held)
    IN  IF Falsy(folderName)
        THEN target
        ELSE FilterIdx(target,
                       {i \in 1..Len(target) :
                           /\ Len(folderName.v) <= Len(target[i].folder)
                           /\ SubSeq(target[i].folder, 1, Len(folderName.v)) = folderName.v}, 1)

filterByFolder(folderName, arg, held) ==
    LET target == TargetBookmarks(arg, held)
    IN  IF Falsy(folderName)
        THEN target
        ELSE FilterIdx(target, {i \in 1..Len(target) : target[i].folder = folderName.v}, 1)

filterByTag(tag, arg, held) ==
    LET target == TargetBookmarks(arg, held)
    IN  IF Falsy(tag)
        THEN target
        ELSE FilterIdx(target, {i \in 1..Len(target) : tag.v \in Range(target[i].tags)}, 1)

(***************************************************************************)
(* BookmarkAPI.parseBookmarkTree                                           *)
(*                                                                         *)
(* A node of the native tree is a record of optional fields: id, title,    *)
(* url, children, dateAdded.  An element of the array that is undefined    *)
(* (a missing root of a JSON envelope) is Absent.                          *)
(***************************************************************************)

ROOT_SENTINEL == <<"<gen>", "<mu>", "<lu>">>

\* '书签栏'
BOOKMARK_BAR == <<"<shu>", "<qian>", "<lan>">>

\* '其他书签'
OTHER_BOOKMARKS == <<"<qi>", "<ta>", "<shu>", "<qian>">>

\* '无标题'
UNTITLED == <<"<wu>", "<biao>", "<ti>">>

\* An optional string in a template literal: `${x}`
Interpolate(s) == IF IsAbsent(s) THEN <<"u", "n", "d", "e", "f", "i", "n", "e", "d">> ELSE s.v

\* x || fallback for an optional string
OrElse(s, fallback) == IF Falsy(s) THEN fallback ELSE s.v

\* new Date(ms)
DateOf(ms) == [type |-> "Date", time |-> ms]

\* const folderPath = parentPath ? `${parentPath}/${node.title}` : node.title
NativeFolderPath(parentPath, title) ==
    IF parentPath # <<>>
    THEN Given(parentPath \o <<"/">> \o Interpolate(title))
    ELSE title

\* A faulty variant of IsRealFolder: only the first pseudo-root title is skipped
IsRealFolderButOther(title) ==
    /\ ~Falsy(title)
    /\ title.v # BOOKMARK_BAR

\* node.title && node.title !== '书签栏' && node.title !== '其他书签'
IsRealFolder(title) ==
    /\ ~Falsy(title)
    /\ title.v # BOOKMARK_BAR
    /\ title.v # OTHER_BOOKMARKS

\* The Folder record of a container node
NativeFolder(node, parentPath) ==
    [id |-> node.id, title |-> node.title.v,
     path |-> NativeFolderPath(parentPath, node.title).v,
     parentPath |-> parentPath, children |-> <<>>]

\* The Bookmark record of a leaf node
NativeBookmark(node, parentPath, now) ==
    [id |-> node.id,
     title |-> OrElse(node.title, UNTITLED),
     url |-> node.url.v,
     folder |-> IF parentPath # <<>> THEN parentPath ELSE ROOT_SENTINEL,
     dateAdded |-> IF IsAbsent(node.dateAdded) \/ node.dateAdded.v = 0
                   THEN DateOf(now) ELSE DateOf(node.dateAdded.v),
     description |-> generateDescription(node.title, node.url.v),
     tags |-> generateTags(node.title, node.url.v),
     domain |-> extractDomain(node.url.v)]

\* folderMap.set(key, ref): a Map keeps the position of a key it already holds
MapSet(map, key, ref) ==
    IF \E i \in 1..Len(map) : map[i].key = key
    THEN [i \in 1..Len(map) |-> IF map[i].key = key THEN [key |-> key, ref |-> ref] ELSE map[i]]
    ELSE Append(map, [key |-> key, ref |-> ref])

\* Array.from(folderMap.values()).find(f => f.path === parentPath): the index
\* in `folders` of the first folder of the map with that path, 0 if none
FindParent(st, parentPath) ==
    LET hits == {i \in 1..Len(st.folderMap) : st.folders[st.folderMap[i].ref].path = parentPath}
    IN  IF hits = {} THEN 0
        ELSE st.folderMap[CHOOSE i \in hits : \A j \in hits : i <= j].ref

\* The leaf branch of traverse: push the bookmark, attach it to its parent folder
VisitLeaf(node, parentPath, st, now) ==
    LET bookmark == NativeBookmark(node, parentPath, now)
        parent   == FindParent(st, parentPath)
    IN  [st EXCEPT !.bookmarks = Append(@, bookmark),
                   !.folders = IF parent = 0 THEN @
                               ELSE [@ EXCEPT ![parent].children = Append(@, bookmark)]]

\* The container branch of traverse, before the recursion: push the folder
VisitFolder(node, parentPath, st) ==
    IF IsRealFolder(node.title)
    THEN [st EXCEPT !.folders = Append(@, NativeFolder(node, parentPath)),
                    !.folderMap = MapSet(@, node.id, Len(st.folders) + 1)]
    ELSE st

\* A default parameter '' : an undefined argument takes the default
OrElseEmpty(s) == IF IsAbsent(s) THEN <<>> ELSE s.v

\* traverse(nodes, parentPath = ''): the accumulators after the nodes were visited
RECURSIVE traverse(_, _, _, _)
traverse(nodes, parentPath, st, now) ==
    IF nodes = <<>> THEN st
    ELSE LET node == Head(nodes)
             st1  == IF ~IsAbsent(node.children)
                     THEN traverse(node.children.v,
                                   OrElseEmpty(NativeFolderPath(parentPath, node.title)),
                                   VisitFolder(node, parentPath, st), now)
                     ELSE IF ~Falsy(node.url)
                     THEN VisitLeaf(node, parentPath, st, now)
                     ELSE st
         IN  traverse(Tail(nodes), parentPath, st1, now)

\* traverse raises a TypeError: an undefined node, or generateTags on a leaf
\* without a title
RECURSIVE traverseThrows(_)
traverseThrows(nodes) ==
    \E i \in 1..Len(nodes) :
        \/ IsAbsent(nodes[i])
        \/ /\ ~IsAbsent(nodes[i])
           /\ IF ~IsAbsent(nodes[i].children)
              THEN traverseThrows(nodes[i].children.v)
              ELSE ~Falsy(nodes[i].url) /\ generateTagsThrows(nodes[i].title)

Threw(message) == [threw |-> TRUE, error |-> message]

\* parseBookmarkTree(bookmarkTreeNodes)
parseBookmarkTree(nodes, now) ==
    IF traverseThrows(nodes)
    THEN Threw("TypeError")
    ELSE LET st == traverse(nodes, <<>>, [bookmarks |-> <<>>, folders |-> <<>>, folderMap |-> <<>>], now)
         IN  [threw |-> FALSE, bookmarks |-> st.bookmarks, folders |-> st.folders]

(***************************************************************************)
(* BookmarkAPI.parseHTMLBookmarks                                          *)
(*                                                                         *)
(* The document is the DOM the browser's DOMParser built.  An element is   *)
(* [tag, children, text, href, addDate]: its element children, its         *)
(* textContent and its HREF and ADD_DATE attributes.                       *)
(***************************************************************************)

Element(tag, children, text, href, addDate) ==
    [tag |-> tag, children |-> children, text |-> text, href |-> href, addDate |-> addDate]

\* Utils.StringUtils.generateId(): the n-th random id of a parse.  The ids of
\* one parse are pairwise different, or (a collision) all the same.
IdTapes == {"distinct", "colliding"}

generateId(tape, n) == IF tape = "distinct" THEN <<0, n>> ELSE <<0, 0>>

\* The backtick character
BACKTICK == "<backtick>"

\* url.replace(/`/g, '')
RemoveBackticks(s) == FilterIdx(s, {i \in 1..Len(s) : s[i] # BACKTICK}, 1)

\* s || fallback for a string
StrOr(s, fallback) == IF s = <<>> THEN fallback ELSE s

\* currentPath ? `${currentPath}/${name}` : name
JoinPath(currentPath, name) ==
    IF currentPath # <<>> THEN currentPath \o <<"/">> \o name ELSE name

\* The bookmark of a link entry <DT><A ...>
HTMLBookmark(a, currentPath, id, now) ==
    LET url == trim(RemoveBackticks(OrElse(a.href, <<>>)))
    IN  [type |-> "bookmark",
         id |-> id,
         title |-> StrOr(trim(a.text), UNTITLED),
         url |-> url,
         folder |-> StrOr(currentPath, ROOT_SENTINEL),
         path |-> JoinPath(currentPath, trim(a.text)),
         dateAdded |-> IF IsAbsent(a.addDate) THEN DateOf(now) ELSE DateOf(a.addDate.v * 1000),
         description |-> StrOr(generateDescription(Given(a.text), url), <<>>),
         tags |-> generateTags(Given(a.text), url),
         domain |-> extractDomain(url)]

\* The folder of a folder entry <DT><H3>, with the result of the walk of its contents
HTMLFolder(h3, currentPath, id, children) ==
    [type |-> "folder",
     id |-> id,
     title |-> trim(h3.text),
     path |-> JoinPath(currentPath, trim(h3.text)),
     parentPath |-> currentPath,
     children |-> children]

\* Array.from(dlElement.children).filter(el => el.tagName === 'DT' || el.tagName === 'DL')
EntryNodes(dlElement) ==
    FilterIdx(dlElement.children,
              {i \in 1..Len(dlElement.children) : dlElement.children[i].tag \in {"DT", "DL"}}, 1)

\* The loop of walk from index i on: [items, n], the items pushed and the
\* number of ids generated so far.  walk(dlElement, currentPath) is
\* walkFrom(EntryNodes(dlElement), 1, currentPath, ...).
RECURSIVE walkFrom(_, _, _, _, _, _)
walkFrom(nodes, i, currentPath, tape, n, now) ==
    IF i > Len(nodes) THEN [items |-> <<>>, n |-> n]
    ELSE LET node == nodes[i]
             firstChild == node.children[1]
         IN  IF node.tag # "DT" \/ node.children = <<>>
             THEN walkFrom(nodes, i + 1, currentPath, tape, n, now)
             ELSE IF firstChild.tag = "H3"
             THEN LET hasDL == i + 1 <= Len(nodes) /\ nodes[i + 1].tag = "DL"
                      sub   == IF hasDL
                               THEN walkFrom(EntryNodes(nodes[i + 1]), 1,
                                             JoinPath(currentPath, trim(firstChild.text)),
                                             tape, n + 1, now)
                               ELSE [items |-> <<>>, n |-> n + 1]
                      rest  == walkFrom(nodes, IF hasDL THEN i + 2 ELSE i + 1,
                                        currentPath, tape, sub.n, now)
                  IN  [items |-> <<HTMLFolder(firstChild, currentPath,
                                              generateId(tape, n + 1), sub.items)>>
                                 \o rest.items,
                       n |-> rest.n]
             ELSE IF firstChild.tag = "A"
             THEN LET rest == walkFrom(nodes, i + 1, currentPath, tape, n + 1, now)
                  IN  [items |-> <<HTMLBookmark(firstChild, currentPath,
                                                generateId(tape, n + 1), now)>>
                                 \o rest.items,
                       n |-> rest.n]
             ELSE walkFrom(nodes, i + 1, currentPath, tape, n, now)

walk(dlElement, currentPath, tape, now) ==
    walkFrom(EntryNodes(dlElement), 1, currentPath, tape, 0, now).items

\* flatten(tree): what it pushes to `bookmarks`, depth first
RECURSIVE flattenBookmarks(_)
flattenBookmarks(items) ==
    IF items = <<>> THEN <<>>
    ELSE (IF Head(items).type = "bookmark" THEN <<Head(items)>>
          ELSE flattenBookmarks(Head(items).children))
         \o flattenBookmarks(Tail(items))

\* A faulty variant of flattenFolders: a folder is pushed after its contents
RECURSIVE flattenFoldersPostOrder(_)
flattenFoldersPostOrder(items) ==
    IF items = <<>> THEN <<>>
    ELSE (IF Head(items).type = "folder"
          THEN flattenFoldersPostOrder(Head(items).children) \o <<Head(items)>>
          ELSE <<>>)
         \o flattenFoldersPostOrder(Tail(items))

\* flatten(tree): what it pushes to `folders`, a folder before its contents
RECURSIVE flattenFolders(_)
flattenFolders(items) ==
    IF items = <<>> THEN <<>>
    ELSE (IF Head(items).type = "folder"
          THEN <<Head(items)>> \o flattenFolders(Head(items).children)
          ELSE <<>>)
         \o flattenFolders(Tail(items))

\* parseHTMLBookmarks(htmlContent); doc.root is doc.querySelector('DL')
parseHTMLBookmarks(doc, tape, now) ==
    IF IsAbsent(doc.root)
    THEN Threw("invalid bookmark file: no root DL element")
    ELSE LET tree == walk(doc.root.v, <<>>, tape, now)
         IN  [threw |-> FALSE, tree |-> tree,
              bookmarks |-> flattenBookmarks(tree), folders |-> flattenFolders(tree)]

(***************************************************************************)
(* Native trees, bounded by their number of nodes.  The id of a node is    *)
(* its position in the tree, so ids are unique as in the browser's tree.   *)
(***************************************************************************)

MaxNodes == 4

Times == {7}

GITHUB_URL == <<"https://", "g", "i", "t", "h", "u", "b", ".", "c", "o", "m", "/", "x">>

NativeLeaf(id, title) ==
    [id |-> id, title |-> title, url |-> Given(GITHUB_URL), children |-> Absent,
     dateAdded |-> Absent]

NativeContainer(id, title, children) ==
    [id |-> id, title |-> title, url |-> Absent, children |-> Given(children),
     dateAdded |-> Absent]

LeafTitles == {Given(<<"x">>), Absent}

ContainerTitles ==
    {Given(<<"A">>), Given(BOOKMARK_BAR), Given(OTHER_BOOKMARKS), Given(ROOT_SENTINEL)}

\* The sequences of nodes with n nodes in all, the first one at position k under `prefix`
RECURSIVE NativeForest(_, _, _)
NativeForest(n, prefix, k) ==
    IF n = 0 THEN {<<>>}
    ELSE UNION {
           LET id == Append(prefix, k)
               firsts == IF m = 1
                         THEN {NativeLeaf(id, t) : t \in LeafTitles}
                              \cup {NativeContainer(id, t, <<>>) : t \in ContainerTitles}
                         ELSE {NativeContainer(id, t, ch) :
                                  t \in ContainerTitles, ch \in NativeForest(m - 1, id, 1)}
           IN  {<<first>> \o rest : first \in firsts, rest \in NativeForest(n - m, prefix, k + 1)}
           : m \in 1..n }

NativeForestsUpTo(n) == UNION {NativeForest(i, <<>>, 1) : i \in 0..n}

(***************************************************************************)
(* Bookmark export documents, bounded by their number of entries.  A       *)
(* folder's contents are the DL that follows its DT (the shape the parser  *)
(* reads) or a DL inside its DT.                                           *)
(***************************************************************************)

H3(text) == Element("H3", <<>>, text, Absent, Absent)

DT(children) == Element("DT", children, <<>>, Absent, Absent)

DL(children) == Element("DL", children, <<>>, Absent, Absent)

Links ==
    { Element("A", <<>>, <<"x">>, Given(<<BACKTICK>> \o GITHUB_URL \o <<" ">>), Given(5)),
      Element("A", <<>>, <<>>, Absent, Absent) }

HeadingTexts == {<<" ", "A">>, ROOT_SENTINEL}

\* The sequences of entries of a DL with n elements in all
RECURSIVE Entries(_)
Entries(n) ==
    IF n = 0 THEN {<<>>}
    ELSE UNION {
           LET firsts == IF m = 1
                         THEN {DT(<<a>>) : a \in Links}
                              \cup {DT(<<H3(t)>>) : t \in HeadingTexts}
                              \cup {DL(<<>>)}
                         ELSE {DL(ch) : ch \in Entries(m - 1)}
                              \cup {DT(<<H3(t), DL(ch)>>) :
                                       t \in HeadingTexts, ch \in Entries(m - 2)}
           IN  {<<first>> \o rest : first \in firsts, rest \in Entries(n - m)}
           : m \in 1..n }

HTMLDocuments(n) ==
    {[kind |-> "html", root |-> Absent]}
    \cup {[kind |-> "html", root |-> Given(DL(es))] :
             es \in UNION {Entries(i) : i \in 0..n}}

(***************************************************************************)
(* The parsers applied to a source document (SpecParse)                    *)
(***************************************************************************)

ParseUnchanged == UNCHANGED <<bookmarks, folders, isSupported, pc, file, last, q, src, app>>

\* parseBookmarkTree(bookmarkTreeNodes)
ParseBookmarkTree ==
    /\ out = Absent
    /\ src.kind = "native"
    /\ \E now \in Times : out' = Given(parseBookmarkTree(src.nodes, now))
    /\ ParseUnchanged

\* parseHTMLBookmarks(htmlContent)
ParseHTMLBookmarks ==
    /\ out = Absent
    /\ src.kind = "html"
    /\ \E tape \in IdTapes, now \in Times : out' = Given(parseHTMLBookmarks(src, tape, now))
    /\ ParseUnchanged

(***************************************************************************)
(* The query calls a caller can make.  A call is recorded with its         *)
(* arguments, its return value and the supplied array as it is afterwards. *)
(***************************************************************************)

MaxColl == 2

\* Canonical bookmarks for the query engine (every field present)
QBookmark(id, title, url, description, folder, tags) ==
    [id |-> id, title |-> title, url |-> url, description |-> description,
     folder |-> folder, tags |-> tags, domain |-> extractDomain(url)]

QueryPool ==
    { QBookmark("1", <<"M", "a">>, <<"https://", "x">>, <<"n">>,
                <<"<gen>", "<mu>", "<lu>">>, <<>>),
      QBookmark("2", <<"m">>, <<"https://", "U">>, <<"n">>, <<"W">>, <<>>),
      QBookmark("3", <<"m">>, <<"https://", "x">>, <<"E", " ", "n">>,
                <<"W", "/", "a">>, << <<"G">> >>),
      QBookmark("4", <<"m">>, <<"https://", "x">>, <<"n">>, <<"w">>,
                << <<"k">>, <<"G", " ", "a">> >>) }

RECURSIVE SeqsUpTo(_, _)
SeqsUpTo(S, n) ==
    IF n = 0 THEN {<<>>}
    ELSE LET shorter == SeqsUpTo(S, n - 1)
         IN  shorter \cup {Append(s, x) : s \in shorter, x \in S}

\* The `bookmarks` argument: an array, or left out
Collections == {Absent} \cup {Given(c) : c \in SeqsUpTo(QueryPool, MaxColl)}

Keywords ==
    {Absent} \cup {Given(k) : k \in {<<>>, <<" ">>, <<"a">>, <<" ", "a", " ">>, <<"A">>,
                                     <<"u">>, <<"e">>, <<"g">>, <<"z">>}}

FolderNames ==
    {Absent} \cup {Given(f) : f \in {<<>>, <<"W">>, <<"w">>, <<"W", "/", "a">>,
                                     <<"<gen>", "<mu>", "<lu>">>}}

TagNames == {Absent} \cup {Given(t) : t \in {<<>>, <<"G">>, <<"g">>, <<"k">>}}

\* The models this.bookmarks holds while the queries are made
HeldModels ==
    { <<>>,
      <<QBookmark("2", <<"m">>, <<"https://", "U">>, <<"n">>, <<"W">>, <<>>),
        QBookmark("3", <<"m">>, <<"https://", "x">>, <<"E", " ", "n">>,
                  <<"W", "/", "a">>, << <<"G">> >>)>> }

Orders ==
    {o \in [1..3 -> {"searchBookmarks", "filterByFolder", "filterByTag"}] :
        \A i, j \in 1..3 : i # j => o[i] # o[j]}

\* One of the three query functions, by name
QueryFn(name, kw, fo, tg, arg, held) ==
    CASE name = "searchBookmarks" -> searchBookmarks(kw, arg, held)
      [] name = "filterByFolder"  -> filterByFolder(fo, arg, held)
      [] name = "filterByTag"     -> filterByTag(tg, arg, held)

\* The three query functions chained in the given order, each on the result
\* of the one before
ChainFilters(order, kw, fo, tg, arg, held) ==
    LET r1 == QueryFn(order[1], kw, fo, tg, arg, held)
        r2 == QueryFn(order[2], kw, fo, tg, Given(r1), held)
    IN  QueryFn(order[3], kw, fo, tg, Given(r2), held)

\* The arguments of a query call; the call has not been made
QueryArgs(kw, fo, tg, c) ==
    [op |-> "none", keyword |-> kw, folderName |-> fo, tag |-> tg, coll |-> c,
     order |-> <<>>, ret |-> <<>>, collAfter |-> c]

NoQuery == QueryArgs(Absent, Absent, Absent, Absent)

QueryUnchanged ==
    UNCHANGED <<bookmarks, folders, isSupported, pc, file, last, src, out, app>>

\* searchBookmarks(keyword, bookmarks)
SearchBookmarks ==
    /\ q.op = "none"
    /\ q' = [q EXCEPT !.op = "searchBookmarks",
                      !.ret = searchBookmarks(q.keyword, q.coll, bookmarks)]
    /\ QueryUnchanged

\* filterByFolder(folderName, bookmarks)
FilterByFolder ==
    /\ q.op = "none"
    /\ q' = [q EXCEPT !.op = "filterByFolder",
                      !.ret = filterByFolder(q.folderName, q.coll, bookmarks)]
    /\ QueryUnchanged

\* filterByTag(tag, bookmarks)
FilterByTag ==
    /\ q.op = "none"
    /\ q' = [q EXCEPT !.op = "filterByTag",
                      !.ret = filterByTag(q.tag, q.coll, bookmarks)]
    /\ QueryUnchanged

\* The three calls chained by the caller, in any order
Chain ==
    /\ q.op = "none"
    /\ \E o \in Orders :
        q' = [q EXCEPT !.op = "chain", !.order = o,
                       !.ret = ChainFilters(o, q.keyword, q.folderName, q.tag, q.coll, bookmarks)]
    /\ QueryUnchanged

NoFile == [absent |-> TRUE]

NoCall == [op |-> "none"]

InitQuery ==
    /\ bookmarks \in HeldModels
    /\ folders = <<>>
    /\ isSupported = FALSE
    /\ pc = "idle"
    /\ file = NoFile
    /\ last = NoCall
    /\ q \in {QueryArgs(kw, fo, tg, c) :
                kw \in Keywords, fo \in FolderNames, tg \in TagNames, c \in Collections}
    /\ src = Absent
    /\ out = Absent
    /\ app = NoApp

NextQuery == SearchBookmarks \/ FilterByFolder \/ FilterByTag \/ Chain

SpecQuery == InitQuery /\ [][NextQuery]_vars

(***************************************************************************)
(* Properties of the query engine (checked under SpecQuery)                *)
(***************************************************************************)

\* The collection a query call works on: the one supplied, else the held model
Supplied == IF IsAbsent(q.coll) THEN bookmarks ELSE q.coll.v

\* a is b with some elements left out, the others in their order
RECURSIVE IsSubseq(_, _)
IsSubseq(a, b) ==
    IF a = <<>> THEN TRUE
    ELSE IF b = <<>> THEN FALSE
    ELSE IF Head(a) = Head(b) THEN IsSubseq(Tail(a), Tail(b))
    ELSE IsSubseq(a, Tail(b))

\* ret is exactly the elements of c at the indexes in keep, in their order
ExactlyThose(ret, c, keep) ==
    /\ IsSubseq(ret, c)
    /\ Len(ret) = Cardinality(keep)
    /\ \A i \in 1..Len(c) : (i \in keep) <=> (c[i] \in Range(ret))

\* An optional string that is missing, empty or white space only
Blank(k) == IsAbsent(k) \/ \A i \in 1..Len(k.v) : k.v[i] \in WhiteSpace

\* s without its leading and trailing white space
RECURSIVE Strip(_)
Strip(s) ==
    IF s = <<>> THEN s
    ELSE IF Head(s) \in WhiteSpace THEN Strip(Tail(s))
    ELSE IF s[Len(s)] \in WhiteSpace THEN Strip(SubSeq(s, 1, Len(s) - 1))
    ELSE s

\* t occurs in the lower-cased s
OccursCI(t, s) ==
    \E i \in 1..(Len(s) + 1), j \in 0..Len(s) :
        /\ j - i + 1 = Len(t)
        /\ toLowerCase(SubSeq(s, i, j)) = t

\* t occurs in the lower-cased title, url, description, folder or in a tag of b
Mentions(b, t) ==
    \/ OccursCI(t, b.title)
    \/ OccursCI(t, b.url)
    \/ OccursCI(t, b.description)
    \/ OccursCI(t, b.folder)
    \/ \E g \in Range(b.tags) : OccursCI(t, g)

\* C5: with an empty or white-space-only keyword searchBookmarks returns the
\* supplied collection unchanged, and for every keyword its result holds only
\* elements of the collection, in their original relative order.
C5_SearchSubsequence ==
    q.op = "searchBookmarks" =>
        /\ Blank(q.keyword) => q.ret = Supplied
        /\ IsSubseq(q.ret, Supplied)

C5_Witness ==
    /\ q.op = "searchBookmarks"
    /\ ~Blank(q.keyword)
    /\ Len(Supplied) = 2
    /\ Supplied[1] # Supplied[2]
    /\ q.ret = <<Supplied[2]>>

\* C6 as claimed: for a non-empty keyword searchBookmarks returns exactly the
\* bookmarks in which the lower-cased keyword occurs (title, url, description,
\* folder or a tag, lower-cased).
C6_LowerCasedKeywordExact ==
    (q.op = "searchBookmarks" /\ ~IsAbsent(q.keyword) /\ q.keyword.v # <<>>) =>
        ExactlyThose(q.ret, Supplied,
                     {i \in 1..Len(Supplied) : Mentions(Supplied[i], toLowerCase(q.keyword.v))})

\* C6 amended: for a keyword that is not empty or white space only
\* searchBookmarks returns exactly the bookmarks in which the keyword,
\* lower-cased and with its leading and trailing white space removed, occurs
\* (title, url, description, folder or a tag, lower-cased).
C6_TrimmedKeywordExact ==
    (q.op = "searchBookmarks" /\ ~Blank(q.keyword)) =>
        ExactlyThose(q.ret, Supplied,
                     {i \in 1..Len(Supplied) :
                         Mentions(Supplied[i], Strip(toLowerCase(q.keyword.v)))})

C6_Witness ==
    /\ q.op = "searchBookmarks"
    /\ q.keyword = Given(<<" ", "a", " ">>)
    /\ q.ret # <<>>
    /\ Len(q.ret) < Len(Supplied)
    /\ \A i \in 1..Len(q.ret) : ~Mentions(q.ret[i], <<" ", "a", " ">>)

\* C7: filterByFolder returns exactly the bookmarks whose folder equals the
\* name, filterByTag exactly those whose tags contain the tag; with an empty
\* or missing argument each returns the collection itself; a supplied empty
\* collection gives an empty result, not the held model.
C7_FilterExact ==
    /\ q.op = "filterByFolder" =>
          /\ IF IsAbsent(q.folderName) \/ q.folderName = Given(<<>>)
             THEN q.ret = Supplied
             ELSE ExactlyThose(q.ret, Supplied,
                               {i \in 1..Len(Supplied) : Supplied[i].folder = q.folderName.v})
          /\ q.coll = Given(<<>>) => q.ret = <<>>
    /\ q.op = "filterByTag" =>
          /\ IF IsAbsent(q.tag) \/ q.tag = Given(<<>>)
             THEN q.ret = Supplied
             ELSE ExactlyThose(q.ret, Supplied,
                               {i \in 1..Len(Supplied) :
                                   \E j \in 1..Len(Supplied[i].tags) : Supplied[i].tags[j] = q.tag.v})
          /\ q.coll = Given(<<>>) => q.ret = <<>>

C7_Witness ==
    /\ q.op = "filterByFolder"
    /\ q.folderName = Given(<<"W">>)
    /\ ~IsAbsent(q.coll)
    /\ \E i, j \in 1..Len(Supplied) :
          /\ Supplied[i].folder = <<"W">>
          /\ Supplied[j].folder = <<"W", "/", "a">>
    /\ Len(q.ret) = 1

\* C8: chaining searchBookmarks, filterByFolder and filterByTag gives the same
\* list of bookmarks in each of the six orders (each order gives what the
\* order search, folder, tag gives), and the calls change neither the
\* supplied collection nor this.bookmarks.
C8_ChainOrderIndependent ==
    [][(q.op = "none" /\ q'.op = "chain") =>
          /\ q'.ret = ChainFilters(<<"searchBookmarks", "filterByFolder", "filterByTag">>,
                                   q.keyword, q.folderName, q.tag, q.coll, bookmarks)
          /\ q'.collAfter = q.coll
          /\ bookmarks' = bookmarks]_vars

C8_Witness ==
    /\ q.op = "chain"
    /\ q.order[1] = "filterByTag"
    /\ ~Blank(q.keyword) /\ ~Blank(q.folderName) /\ ~Blank(q.tag)
    /\ q.ret # <<>>
    /\ Len(q.ret) < Len(Supplied)

(***************************************************************************)
(* JSON text.  A text is the value JSON.parse gives for it, or malformed.  *)
(* A JSON value is null or an object of optional members; a member that    *)
(* must be told from a string is JArray or JString.                        *)
(***************************************************************************)

JArray(elems) == [array |-> elems]

JString(chars) == [string |-> chars]

IsArray(member) == ~IsAbsent(member) /\ "array" \in DOMAIN member.v

\* A member is truthy: present, and not the empty string
Truthy(member) == ~IsAbsent(member) /\ member.v # JString(<<>>)

JObject(version, exportDate, bms, flds, total, roots) ==
    [kind |-> "object", version |-> version, exportDate |-> exportDate,
     bookmarks |-> bms, folders |-> flds, total |-> total, roots |-> roots]

JNull == [kind |-> "null"]

MalformedJSON == [malformed |-> TRUE]

JSONText(value) == [malformed |-> FALSE, value |-> value]

\* Date.prototype.toJSON: the ISO-8601 string of the instant
toISOString(date) == [type |-> "string", time |-> date.time]

\* What JSON.stringify writes, and JSON.parse reads back, for an array of
\* bookmarks and folders: a Date becomes its ISO string, the rest is kept
RECURSIVE ToJSON(_)
ToJSON(items) ==
    [i \in 1..Len(items) |->
        LET item == items[i]
            dated == IF "dateAdded" \in DOMAIN item /\ item.dateAdded.type = "Date"
                     THEN [item EXCEPT !.dateAdded = toISOString(@)] ELSE item
        IN  IF "children" \in DOMAIN dated
            THEN [dated EXCEPT !.children = ToJSON(@)] ELSE dated]

\* exportBookmarks(): the text of JSON.stringify(exportData, null, 2)
exportBookmarks(bms, flds, now) ==
    JSONText(JObject(Given(JString(<<"1", ".", "0">>)), Given(toISOString(DateOf(now))),
                     Given(JArray(ToJSON(bms))), Given(JArray(ToJSON(flds))),
                     Given(Len(bms)), Absent))

\* parseJSONBookmarks(jsonContent).  Every error is thrown again as
\* `解析JSON文件失败: ${error.message}`
parseJSONBookmarks(text, now) ==
    LET rethrow(message) == Threw("parsing the JSON file failed: " \o message)
    IN  IF text.malformed THEN rethrow("SyntaxError")
        ELSE IF text.value = JNull THEN rethrow("TypeError")
        ELSE LET data == text.value
             IN  IF Truthy(data.bookmarks) /\ IsArray(data.bookmarks)
                 THEN [threw |-> FALSE, bookmarks |-> data.bookmarks.v.array,
                       folders |-> IF Truthy(data.folders) THEN data.folders.v.array ELSE <<>>]
                 ELSE IF ~IsAbsent(data.roots)
                 THEN LET r == parseBookmarkTree(<<data.roots.v.bookmark_bar, data.roots.v.other,
                                                   data.roots.v.synced>>, now)
                      IN  IF r.threw THEN rethrow(r.error) ELSE r
                 \* '无法识别的JSON书签格式'
                 ELSE rethrow("unrecognized JSON bookmark format")

(***************************************************************************)
(* The calls of BookmarkAPI that change the held model.  A call's record   *)
(* `last` holds its input and what it returned; an outcome is the return   *)
(* value together with this.bookmarks and this.folders after the call.     *)
(***************************************************************************)

Pending == [kind |-> "pending"]

\* { success: true, data: { bookmarks, folders, total } }
Ok(bms, flds) ==
    [kind |-> "returned", success |-> TRUE,
     data |-> [bookmarks |-> bms, folders |-> flds, total |-> Len(bms)]]

\* { success: false, error: error.message }
Fail(message) == [kind |-> "returned", success |-> FALSE, error |-> message]

\* An exception nothing catches: the promise of the call never settles
Uncaught(message) == [kind |-> "uncaught", error |-> message]

Outcome(ret, bms, flds) == [ret |-> ret, bookmarks |-> bms, folders |-> flds]

\* this.bookmarks = result.bookmarks; this.folders = result.folders; resolve({...})
Replaced(result) == Outcome(Ok(result.bookmarks, result.folders), result.bookmarks, result.folders)

\* A faulty variant of importBookmarks: the model is assigned before the data is validated
importBookmarksAssignsFirst(text, bms, flds) ==
    IF text.malformed THEN Outcome(Fail(Given("SyntaxError")), bms, flds)
    ELSE IF text.value = JNull THEN Outcome(Fail(Given("TypeError")), bms, flds)
    ELSE LET data == text.value
         IN  IF ~(Truthy(data.bookmarks) /\ IsArray(data.bookmarks))
             THEN Outcome(Fail(Given("invalid bookmark data format")), <<>>, <<>>)
             ELSE Replaced([bookmarks |-> data.bookmarks.v.array,
                            folders |-> IF Truthy(data.folders) THEN data.folders.v.array ELSE <<>>])

\* A faulty variant of importBookmarks: the imported bookmarks are merged into the held ones
importBookmarksMerges(text, bms, flds) ==
    IF text.malformed THEN Outcome(Fail(Given("SyntaxError")), bms, flds)
    ELSE IF text.value = JNull THEN Outcome(Fail(Given("TypeError")), bms, flds)
    ELSE LET data == text.value
         IN  IF ~(Truthy(data.bookmarks) /\ IsArray(data.bookmarks))
             THEN Outcome(Fail(Given("invalid bookmark data format")), bms, flds)
             ELSE Replaced([bookmarks |-> bms \o data.bookmarks.v.array,
                            folders |-> IF Truthy(data.folders) THEN data.folders.v.array ELSE <<>>])

\* importBookmarks(jsonData)
importBookmarks(text, bms, flds) ==
    IF text.malformed THEN Outcome(Fail(Given("SyntaxError")), bms, flds)
    ELSE IF text.value = JNull THEN Outcome(Fail(Given("TypeError")), bms, flds)
    ELSE LET data == text.value
         IN  IF ~(Truthy(data.bookmarks) /\ IsArray(data.bookmarks))
             \* '无效的书签数据格式'
             THEN Outcome(Fail(Given("invalid bookmark data format")), bms, flds)
             ELSE Replaced([bookmarks |-> data.bookmarks.v.array,
                            folders |-> IF Truthy(data.folders) THEN data.folders.v.array ELSE <<>>])

\* The callback of chrome.bookmarks.getTree in getChromeBookmarks, and the
\* catch of getBookmarks when the promise is rejected; `result` is what
\* parseBookmarkTree makes of the nodes passed.  An exception of
\* parseBookmarkTree is raised inside the callback, outside the promise's
\* executor: it rejects nothing.
getChromeBookmarks(reply, result, bms, flds) ==
    IF ~IsAbsent(reply.lastError)
    THEN Outcome(Fail(reply.lastError), bms, flds)
    ELSE IF result.threw
    THEN Outcome(Uncaught(result.error), bms, flds)
    ELSE Replaced(result)

HTML_EXT == <<".", "h", "t", "m", "l">>

JSON_EXT == <<".", "j", "s", "o", "n">>

\* The parser fileInput.onchange picks by the extension of the file's name
ParseFile(f, tape, now) ==
    IF endsWith(f.name, HTML_EXT)
    THEN parseHTMLBookmarks(f.content.dom, tape, now)
    ELSE IF endsWith(f.name, JSON_EXT)
    THEN parseJSONBookmarks(f.content.json, now)
    \* '不支持的文件格式，请选择HTML或JSON文件'
    ELSE Threw("unsupported file format")

\* The body of fileInput.onchange in getBookmarksFromFile once the file is
\* read and parsed to `result`, and the catch of getBookmarks when the
\* promise is rejected
getBookmarksFromFile(result, bms, flds) ==
    IF result.threw
    THEN Outcome(Fail(Given(result.error)), bms, flds)
    ELSE Replaced(result)

(***************************************************************************)
(* What the surroundings hand to the API                                   *)
(***************************************************************************)

IngestNodes == 2

\* The tree chrome.bookmarks.getTree passes: one root node without a title
ChromeTree(forest) == <<NativeContainer(<<>>, Given(<<>>), forest)>>

ChromeReplies(n) ==
    {[lastError |-> Given("runtime error"), nodes |-> <<>>]}
    \cup {[lastError |-> Absent, nodes |-> ChromeTree(f)] : f \in NativeForestsUpTo(n)}

StoredBookmark ==
    [id |-> <<9>>, title |-> <<"x">>, url |-> GITHUB_URL, folder |-> <<"A">>,
     dateAdded |-> toISOString(DateOf(5)), description |-> <<"d">>, tags |-> <<>>,
     domain |-> extractDomain(GITHUB_URL)]

Roots(synced) ==
    [bookmark_bar |-> NativeContainer(<<1>>, Given(BOOKMARK_BAR),
                                      <<NativeLeaf(<<1, 1>>, Given(<<"x">>))>>),
     other |-> NativeContainer(<<2>>, Given(<<"A">>), <<>>),
     synced |-> synced]

JSONTexts ==
    { MalformedJSON,
      JSONText(JNull),
      JSONText(JObject(Absent, Absent, Absent, Absent, Absent, Absent)),
      JSONText(JObject(Absent, Absent, Given(JString(<<"n", "o">>)), Absent, Absent, Absent)),
      JSONText(JObject(Absent, Absent, Given(JArray(<<>>)), Given(JArray(<<>>)), Absent, Absent)),
      JSONText(JObject(Absent, Absent, Given(JArray(<<StoredBookmark>>)), Absent, Absent, Absent)),
      JSONText(JObject(Absent, Absent, Absent, Absent, Absent,
                       Given(Roots(NativeContainer(<<3>>, Given(<<"A">>), <<>>))))),
      JSONText(JObject(Absent, Absent, Absent, Absent, Absent, Given(Roots(Absent)))) }

NoDL == [kind |-> "html", root |-> Absent]

HTMLFile(doc) == [dom |-> doc, json |-> MalformedJSON]

JSONFile(text) == [dom |-> NoDL, json |-> text]

HTML_NAME == <<"b">> \o HTML_EXT

JSON_NAME == <<"b">> \o JSON_EXT

TEXT_NAME == <<"b", ".", "t", "x", "t">>

File(name, content) == [name |-> name, content |-> content]

\* The files a user picks: exported HTML and JSON under their own extension,
\* and one of each under each other extension
Files(n) ==
    {File(HTML_NAME, HTMLFile([kind |-> "html", root |-> Given(DL(es))])) :
        es \in UNION {Entries(i) : i \in 0..n}}
    \cup {File(JSON_NAME, JSONFile(t)) : t \in JSONTexts}
    \cup {File(name, JSONFile(JSONText(JObject(Absent, Absent, Given(JArray(<<StoredBookmark>>)),
                                               Absent, Absent, Absent)))) :
             name \in {HTML_NAME, TEXT_NAME}}
    \cup {File(name, HTMLFile([kind |-> "html", root |-> Given(DL(<<>>))])) :
             name \in {JSON_NAME, TEXT_NAME}}

Call(op, input, ret) == [op |-> op, input |-> input, ret |-> ret]

Ingested(o) == bookmarks' = o.bookmarks /\ folders' = o.folders

IngestUnchanged == UNCHANGED <<isSupported, q, src, out, app>>

\* getBookmarks(), up to its first suspension: the request to the native
\* accessor, or the file dialog
GetBookmarks ==
    /\ pc = "idle"
    /\ pc' = IF isSupported THEN "getTree" ELSE "dialog"
    /\ last' = Call("getBookmarks", Absent, Pending)
    /\ UNCHANGED <<bookmarks, folders, file>>
    /\ IngestUnchanged

\* The native accessor calls back
ChromeCallback ==
    /\ pc = "getTree"
    /\ \E reply \in ChromeReplies(IngestNodes), now \in Times :
          \E result \in {parseBookmarkTree(reply.nodes, now)} :
             LET o == getChromeBookmarks(reply, result, bookmarks, folders)
             IN  /\ Ingested(o)
                 /\ last' = Call("getBookmarks", [via |-> "chrome", reply |-> reply], o.ret)
    /\ pc' = "idle"
    /\ UNCHANGED file
    /\ IngestUnchanged

\* fileInput.oncancel: '用户取消了文件选择'
FileCancel ==
    /\ pc = "dialog"
    /\ pc' = "idle"
    /\ last' = Call("getBookmarks", [via |-> "cancel"], Fail(Given("the user cancelled the file selection")))
    /\ UNCHANGED <<bookmarks, folders, file>>
    /\ IngestUnchanged

\* fileInput.onchange without a file: '未选择文件'
FileChangeEmpty ==
    /\ pc = "dialog"
    /\ pc' = "idle"
    /\ last' = Call("getBookmarks", [via |-> "empty"], Fail(Given("no file selected")))
    /\ UNCHANGED <<bookmarks, folders, file>>
    /\ IngestUnchanged

\* fileInput.onchange with a file: FileUtils.readAsText(file) is awaited
FileChange ==
    /\ pc = "dialog"
    /\ pc' = "reading"
    /\ file' \in Files(IngestNodes)
    /\ UNCHANGED <<bookmarks, folders, last>>
    /\ IngestUnchanged

\* reader.onerror: the promise is rejected with the event, which has no message
ReadError ==
    /\ pc = "reading"
    /\ pc' = "idle"
    /\ file' = NoFile
    /\ last' = Call("getBookmarks", [via |-> "unreadable"], Fail(Absent))
    /\ UNCHANGED <<bookmarks, folders>>
    /\ IngestUnchanged

\* reader.onload: the content is parsed
ReadDone ==
    /\ pc = "reading"
    /\ \E tape \in IdTapes, now \in Times :
          \E result \in {ParseFile(file, tape, now)} :
             LET o == getBookmarksFromFile(result, bookmarks, folders)
             IN  /\ Ingested(o)
                 /\ last' = Call("getBookmarks", [via |-> "file", file |-> file], o.ret)
    /\ pc' = "idle"
    /\ file' = NoFile
    /\ IngestUnchanged

\* exportBookmarks()
ExportBookmarks ==
    /\ \E now \in Times :
          last' = Call("exportBookmarks", Absent, exportBookmarks(bookmarks, folders, now))
    /\ UNCHANGED <<bookmarks, folders, pc, file>>
    /\ IngestUnchanged

\* importBookmarks(jsonData), of a text from outside or of the text just exported
ImportBookmarks ==
    /\ \E text \in JSONTexts \cup (IF last.op = "exportBookmarks" THEN {last.ret} ELSE {}) :
          LET o == importBookmarks(text, bookmarks, folders)
          IN  /\ Ingested(o)
              /\ last' = Call("importBookmarks", [via |-> "import", text |-> text], o.ret)
    /\ UNCHANGED <<pc, file>>
    /\ IngestUnchanged

Init ==
    /\ bookmarks = <<>>
    /\ folders = <<>>
    /\ isSupported \in BOOLEAN
    /\ pc = "idle"
    /\ file = NoFile
    /\ last = NoCall
    /\ q = NoQuery
    /\ src = Absent
    /\ out = Absent
    /\ app = NoApp

Next ==
    \/ GetBookmarks
    \/ ChromeCallback
    \/ FileCancel
    \/ FileChangeEmpty
    \/ FileChange
    \/ ReadError
    \/ ReadDone
    \/ ExportBookmarks
    \/ ImportBookmarks

Spec == Init /\ [][Next]_vars

(***************************************************************************)
(* Properties of the ingestion calls                                       *)
(***************************************************************************)

\* The step ends a call of getBookmarks or importBookmarks
Ends == last' # last /\ last'.op \in {"getBookmarks", "importBookmarks"}
                     /\ last'.ret.kind # "pending"

Succeeded(call) == call.ret.kind = "returned" /\ call.ret.success

\* What the source handed to a call parses to
ParseOf(input, tape, now) ==
    CASE input.via = "chrome" -> parseBookmarkTree(input.reply.nodes, now)
      [] input.via = "file" -> ParseFile(input.file, tape, now)
      [] input.via = "import" ->
            [threw |-> FALSE, bookmarks |-> input.text.value.bookmarks.v.array,
             folders |-> IF IsAbsent(input.text.value.folders) THEN <<>>
                         ELSE input.text.value.folders.v.array]

\* C1: a call of getBookmarks or importBookmarks that ends without success
\* (a result {success: false}, or an exception of the parser) leaves
\* this.bookmarks and this.folders exactly what they were before the call.
C1_FailureKeepsModel ==
    [][ Ends /\ ~Succeeded(last') => bookmarks' = bookmarks /\ folders' = folders ]_vars

\* importBookmarks has rejected a `bookmarks` that is not an array while a
\* model with bookmarks was held
C1_Witness ==
    /\ last.op = "importBookmarks"
    /\ ~Succeeded(last)
    /\ last.ret.error = Given("invalid bookmark data format")
    /\ Truthy(last.input.text.value.bookmarks)
    /\ Len(bookmarks) > 0

\* C2: importBookmarks of the text exportBookmarks has just returned succeeds
\* and leaves this.bookmarks and this.folders with the same elements, in the
\* same order and with the same field values, as before the export.
C2_RoundTripPreservesModel ==
    [][ last.op = "exportBookmarks" /\ last'.op = "importBookmarks"
            /\ last'.input.text = last.ret
        => Succeeded(last') /\ bookmarks' = bookmarks /\ folders' = folders ]_vars

\* C3: when a call of getBookmarks or importBookmarks succeeds, this.bookmarks
\* and this.folders are exactly the bookmarks and folders its input parses
\* to, whatever was held before, and they are what the call returns.
C3_SuccessReplacesModel ==
    [][ Ends /\ Succeeded(last') =>
          \E tape \in IdTapes, now \in Times :
             \E r \in {ParseOf(last'.input, tape, now)} :
                 /\ ~r.threw
                 /\ bookmarks' = r.bookmarks
                 /\ folders' = r.folders
                 /\ last'.ret.data = [bookmarks |-> r.bookmarks, folders |-> r.folders,
                                      total |-> Len(r.bookmarks)] ]_vars

\* A file has been ingested: the model is the one bookmark and the one
\* folder it holds
C3_Witness ==
    /\ last.op = "getBookmarks"
    /\ Succeeded(last)
    /\ last.input.via = "file"
    /\ Len(bookmarks) = 1
    /\ Len(folders) = 1
    /\ bookmarks[1].folder = folders[1].path

\* C4: a call of getBookmarks that does not succeed returns
\* {success: false, error: <message>}; no exception escapes it.
C4_ErrorsAreReturned ==
    last.op = "getBookmarks" =>
        /\ last.ret.kind # "uncaught"
        /\ last.ret.kind = "returned" /\ ~last.ret.success => ~IsAbsent(last.ret.error)

(***************************************************************************)
(* SpecParse: a parser is handed a source document                         *)
(***************************************************************************)

ParseSources(n) ==
    {[kind |-> "native", nodes |-> f] : f \in NativeForestsUpTo(n)} \cup HTMLDocuments(n)

InitParse ==
    /\ bookmarks = <<>>
    /\ folders = <<>>
    /\ isSupported = FALSE
    /\ pc = "idle"
    /\ file = NoFile
    /\ last = NoCall
    /\ q = NoQuery
    /\ src \in ParseSources(MaxNodes)
    /\ out = Absent
    /\ app = NoApp

NextParse == ParseBookmarkTree \/ ParseHTMLBookmarks

SpecParse == InitParse /\ [][NextParse]_vars

\* The parser returned a model
Parsed(kind) == ~IsAbsent(out) /\ src.kind = kind /\ ~out.v.threw

\* C9 as claimed: after parseBookmarkTree every Folder's children are exactly
\* the bookmarks of the flat list whose folder equals the Folder's path.
C9_ChildrenAreFlatByPath ==
    Parsed("native") =>
        \A i \in 1..Len(out.v.folders) :
            out.v.folders[i].children =
                FilterIdx(out.v.bookmarks,
                          {j \in 1..Len(out.v.bookmarks) :
                              out.v.bookmarks[j].folder = out.v.folders[i].path}, 1)

\* C10 as claimed: every Bookmark's folder is the root sentinel or the path of
\* a produced Folder, and every Folder's parentPath is empty or the path of
\* another produced Folder.
C10_FoldersResolve ==
    (Parsed("native") \/ Parsed("html")) =>
        /\ \A j \in 1..Len(out.v.bookmarks) :
              \/ out.v.bookmarks[j].folder = ROOT_SENTINEL
              \/ \E i \in 1..Len(out.v.folders) :
                    out.v.folders[i].path = out.v.bookmarks[j].folder
        /\ \A i \in 1..Len(out.v.folders) :
              \/ out.v.folders[i].parentPath = <<>>
              \/ \E k \in 1..Len(out.v.folders) :
                    k # i /\ out.v.folders[k].path = out.v.folders[i].parentPath

\* C16 as claimed: the root sentinel is no real folder's label: no Bookmark
\* whose folder is the sentinel is returned together with a Folder whose title
\* or path is the sentinel.
C16_SentinelIsNoFolderLabel ==
    (Parsed("native") \/ Parsed("html")) =>
        ~ /\ \E j \in 1..Len(out.v.bookmarks) : out.v.bookmarks[j].folder = ROOT_SENTINEL
          /\ \E i \in 1..Len(out.v.folders) :
                \/ out.v.folders[i].title = ROOT_SENTINEL
                \/ out.v.folders[i].path = ROOT_SENTINEL

\* The bookmarks of the flat list whose folder is the given path
BookmarksIn(path) ==
    FilterIdx(out.v.bookmarks,
              {j \in 1..Len(out.v.bookmarks) : out.v.bookmarks[j].folder = path}, 1)

\* C17 as claimed: after parseHTMLBookmarks, as after parseBookmarkTree, every
\* Folder's children are exactly the Bookmarks whose folder is the Folder's
\* path; no Folder is among them.
C17_HTMLChildrenAreBookmarks ==
    Parsed("html") =>
        \A i \in 1..Len(out.v.folders) :
            /\ \A k \in 1..Len(out.v.folders[i].children) :
                  "url" \in DOMAIN out.v.folders[i].children[k]
            /\ out.v.folders[i].children = BookmarksIn(out.v.folders[i].path)

\* The node at position a is visited before the node at position b
VisitedBefore(a, b) ==
    \/ Len(a) < Len(b) /\ SubSeq(b, 1, Len(a)) = a
    \/ \E k \in 1..Len(a) :
          /\ k <= Len(b)
          /\ SubSeq(a, 1, k - 1) = SubSeq(b, 1, k - 1)
          /\ a[k] < b[k]

\* The folders with the bookmark's folder as path that were created before
\* the bookmark was visited
ParentCandidates(bookmark) ==
    {i \in 1..Len(out.v.folders) :
        /\ out.v.folders[i].path = bookmark.folder
        /\ VisitedBefore(out.v.folders[i].id, bookmark.id)}

Last(S) == CHOOSE i \in S : \A j \in S : j <= i

\* C18 as claimed: when two or more Folders with the bookmark's parent path
\* have been created, parseBookmarkTree attaches the bookmark to the children
\* of the last of them.
C18_AttachedToLastFolder ==
    Parsed("native") =>
        \A j \in 1..Len(out.v.bookmarks) :
            Cardinality(ParentCandidates(out.v.bookmarks[j])) >= 2 =>
                \E k \in 1..Len(out.v.folders[Last(ParentCandidates(out.v.bookmarks[j]))].children) :
                    out.v.folders[Last(ParentCandidates(out.v.bookmarks[j]))].children[k]
                        = out.v.bookmarks[j]

\* The node at a position of the input
RECURSIVE NodeAt(_, _)
NodeAt(nodes, pos) ==
    IF Len(pos) = 1 THEN nodes[pos[1]]
    ELSE NodeAt(nodes[pos[1]].children.v, Tail(pos))

\* The positions of the nodes of the input, in document order
RECURSIVE Positions(_, _, _)
Positions(nodes, prefix, k) ==
    IF k > Len(nodes) THEN <<>>
    ELSE <<Append(prefix, k)>>
         \o (IF IsAbsent(nodes[k].children) THEN <<>>
             ELSE Positions(nodes[k].children.v, Append(prefix, k), 1))
         \o Positions(nodes, prefix, k + 1)

PseudoRoots == {BOOKMARK_BAR, OTHER_BOOKMARKS}

\* The titles of the first n nodes on the way to a position, joined by '/'
RECURSIVE TitlesTo(_, _)
TitlesTo(pos, n) ==
    IF n = 0 THEN <<>>
    ELSE JoinPath(TitlesTo(pos, n - 1), NodeAt(src.nodes, SubSeq(pos, 1, n)).title.v)

Containers ==
    SelectSeq(Positions(src.nodes, <<>>, 1),
              LAMBDA pos : ~IsAbsent(NodeAt(src.nodes, pos).children))

Leaves ==
    SelectSeq(Positions(src.nodes, <<>>, 1),
              LAMBDA pos : IsAbsent(NodeAt(src.nodes, pos).children))

NotPseudoRoot(pos) == NodeAt(src.nodes, pos).title.v \notin PseudoRoots

\* C19: parseBookmarkTree returns no Folder for a container titled '书签栏' or
\* '其他书签', wherever it lies, and one Folder for every other container and
\* one Bookmark for every leaf, those beneath such a container too; the path
\* of a Folder and the folder of a Bookmark are the titles of the containers
\* above joined by '/', the pseudo-root titles among them.
C19_PseudoRootsAreSkippedNotTheirContents ==
    Parsed("native") =>
        /\ \A i \in 1..Len(out.v.folders) : out.v.folders[i].title \notin PseudoRoots
        /\ [i \in 1..Len(out.v.folders) |-> out.v.folders[i].id]
              = SelectSeq(Containers, NotPseudoRoot)
        /\ [j \in 1..Len(out.v.bookmarks) |-> out.v.bookmarks[j].id] = Leaves
        /\ \A i \in 1..Len(out.v.folders) :
              out.v.folders[i].path
                  = TitlesTo(out.v.folders[i].id, Len(out.v.folders[i].id))
        /\ \A j \in 1..Len(out.v.bookmarks) :
              out.v.bookmarks[j].folder
                  = StrOr(TitlesTo(out.v.bookmarks[j].id, Len(out.v.bookmarks[j].id) - 1),
                          ROOT_SENTINEL)

\* A leaf lies beneath a container titled '其他书签' that is not at the top,
\* and a folder beneath a container titled '书签栏'
C19_Witness ==
    /\ Parsed("native")
    /\ \E i \in 1..Len(Containers) :
          /\ Len(Containers[i]) = 2
          /\ NodeAt(src.nodes, Containers[i]).title.v = OTHER_BOOKMARKS
          /\ \E j \in 1..Len(out.v.bookmarks) :
                /\ Len(out.v.bookmarks[j].id) = 3
                /\ SubSeq(out.v.bookmarks[j].id, 1, 2) = Containers[i]
    /\ \E i \in 1..Len(out.v.folders) :
          /\ Len(out.v.folders[i].id) = 2
          /\ NodeAt(src.nodes, SubSeq(out.v.folders[i].id, 1, 1)).title.v = BOOKMARK_BAR

\* C22 as claimed: the path of every Bookmark of parseHTMLBookmarks is the
\* path of its folder, '/' and its title, or its title alone at the top level,
\* the placeholder title included.
C22_PathIsFolderAndTitle ==
    Parsed("html") =>
        \A j \in 1..Len(out.v.bookmarks) :
            \/ out.v.bookmarks[j].path
                  = out.v.bookmarks[j].folder \o <<"/">> \o out.v.bookmarks[j].title
            \/ /\ out.v.bookmarks[j].folder = ROOT_SENTINEL
               /\ out.v.bookmarks[j].path = out.v.bookmarks[j].title

\* A folder entry: a DT whose first element is an H3
IsHeading(node) == node.tag = "DT" /\ node.children # <<>> /\ node.children[1].tag = "H3"

\* A link entry: a DT whose first element is an A
IsLink(node) == node.tag = "DT" /\ node.children # <<>> /\ node.children[1].tag = "A"

\* The contents of the folder entry at i: the entries of the DL that follows it
ContentsAt(nodes, i) ==
    IF i + 1 <= Len(nodes) /\ nodes[i + 1].tag = "DL" THEN nodes[i + 1].children ELSE <<>>

\* The paths of the folder entries of a document in document order, a folder
\* before what it holds
RECURSIVE HeadingPaths(_, _, _)
HeadingPaths(nodes, i, above) ==
    IF i > Len(nodes) THEN <<>>
    ELSE (IF IsHeading(nodes[i])
          THEN LET here == IF above = <<>> THEN trim(nodes[i].children[1].text)
                           ELSE above \o <<"/">> \o trim(nodes[i].children[1].text)
               IN  <<here>> \o HeadingPaths(ContentsAt(nodes, i), 1, here)
          ELSE <<>>)
         \o HeadingPaths(nodes, i + 1, above)

\* The link entries of a document in document order, each with the path of
\* the folder entry that holds it
RECURSIVE LinkPlaces(_, _, _)
LinkPlaces(nodes, i, above) ==
    IF i > Len(nodes) THEN <<>>
    ELSE (IF IsHeading(nodes[i])
          THEN LinkPlaces(ContentsAt(nodes, i), 1,
                          IF above = <<>> THEN trim(nodes[i].children[1].text)
                          ELSE above \o <<"/">> \o trim(nodes[i].children[1].text))
          ELSE IF IsLink(nodes[i])
          THEN <<[folder |-> IF above = <<>> THEN ROOT_SENTINEL ELSE above,
                  text |-> trim(nodes[i].children[1].text)]>>
          ELSE <<>>)
         \o LinkPlaces(nodes, i + 1, above)

\* The ids of a parse, when the generated ids do not collide
FlatIds ==
    {out.v.folders[i].id : i \in 1..Len(out.v.folders)}
    \cup {out.v.bookmarks[j].id : j \in 1..Len(out.v.bookmarks)}

\* C23: the folders of parseHTMLBookmarks are the folder entries of the
\* document in document order, a folder before the folders nested in it, and
\* the bookmarks are its link entries in document order, each once; the
\* entries of the container that follows a folder entry are filed under that
\* folder only.
C23_FlatOutputIsPreOrder ==
    Parsed("html") =>
        /\ [i \in 1..Len(out.v.folders) |-> out.v.folders[i].path]
              = HeadingPaths(src.root.v.children, 1, <<>>)
        /\ [j \in 1..Len(out.v.bookmarks) |->
               [folder |-> out.v.bookmarks[j].folder,
                text |-> IF out.v.bookmarks[j].title = UNTITLED THEN <<>>
                         ELSE out.v.bookmarks[j].title]]
              = LinkPlaces(src.root.v.children, 1, <<>>)
        /\ generateId("distinct", 1) \in FlatIds =>
              Cardinality(FlatIds) = Len(out.v.folders) + Len(out.v.bookmarks)
        /\ \A i \in 1..Len(out.v.folders) :
              \A k \in 1..Len(out.v.folders[i].children) :
                 out.v.folders[i].children[k].type = "folder" =>
                    \E m \in (i + 1)..Len(out.v.folders) :
                       out.v.folders[m] = out.v.folders[i].children[k]

\* A folder holds a folder and is followed by a link at the top level
C23_Witness ==
    /\ Parsed("html")
    /\ Len(out.v.folders) = 2
    /\ out.v.folders[2].parentPath = out.v.folders[1].path
    /\ out.v.folders[1].children = <<out.v.folders[2]>>
    /\ Len(out.v.bookmarks) = 1
    /\ out.v.bookmarks[1].folder = ROOT_SENTINEL
    /\ Cardinality(FlatIds) = 3

(***************************************************************************)
(* SpecLink: a parser is handed a source of two entries, a link or leaf    *)
(* with any of the titles, urls and dates below, then an ordinary one.     *)
(***************************************************************************)

VIDEO_URL ==
    <<"https://", "y", "o", "u", "t", "u", "b", "e", ".", "b", "i", "l", "i", "b", "i", "l", "i",
      ".", "c", "o", "m", "/", "v">>

MIXED_CASE_URL == <<"https://", "G", "i", "t", "H", "u", "b", ".", "I", "O", "?", "q">>

NOT_A_URL == <<"n", "o", "t", " ", "a", " ", "u", "r", "l">>

BOOKMARKLET == <<"javascript:", "v", "o", "i", "d", "(", "0", ")">>

NO_HOST_URL == <<"https://", "/", "x">>

\* A url between backticks, followed by a blank
QUOTED_URL == <<BACKTICK>> \o GITHUB_URL \o <<BACKTICK, " ">>

\* The urls of the sources, each with what the URL parser of a browser makes
\* of it: whether new URL(text) succeeds, and the hostname if it does
KnownURLs ==
    { [text |-> GITHUB_URL, parses |-> TRUE,
       host |-> <<"g", "i", "t", "h", "u", "b", ".", "c", "o", "m">>],
      [text |-> VIDEO_URL, parses |-> TRUE,
       host |-> <<"y", "o", "u", "t", "u", "b", "e", ".", "b", "i", "l", "i", "b", "i", "l", "i",
                  ".", "c", "o", "m">>],
      [text |-> MIXED_CASE_URL, parses |-> TRUE,
       host |-> <<"g", "i", "t", "h", "u", "b", ".", "i", "o">>],
      [text |-> NOT_A_URL, parses |-> FALSE, host |-> <<>>],
      [text |-> QUOTED_URL, parses |-> FALSE, host |-> <<>>],
      [text |-> NO_HOST_URL, parses |-> FALSE, host |-> <<>>],
      [text |-> BOOKMARKLET, parses |-> TRUE, host |-> <<>>],
      [text |-> <<>>, parses |-> FALSE, host |-> <<>>] }

LinkTitles ==
    { <<"x">>, <<>>, <<"D", "o", "c", "s", " ", "b", "l", "o", "g">>,
      <<"<wen>", "<dang>", " ", "d", "o", "c">> }

LinkDates == {Absent, Given(5)}

NativeLink(id, title, url, dateAdded) ==
    [id |-> id, title |-> title, url |-> url, children |-> Absent, dateAdded |-> dateAdded]

\* The native nodes: a leaf has a url that is not empty; its title may be missing
NativeLinkSources ==
    {[kind |-> "native",
      nodes |-> <<NativeLink(<<1>>, t, Given(u.text), d), NativeLeaf(<<2>>, Given(<<"x">>))>>] :
        t \in {Given(c) : c \in LinkTitles} \cup {Absent},
        u \in {k \in KnownURLs : k.text # <<>>},
        d \in LinkDates}

\* The markup: a link has a text, which may be empty; HREF and ADD_DATE may be missing
HTMLLinkSources ==
    {[kind |-> "html",
      root |-> Given(DL(<<DT(<<Element("A", <<>>, t, h, d)>>),
                          DT(<<Element("A", <<>>, <<"x">>, Given(GITHUB_URL), Given(5))>>)>>))] :
        t \in LinkTitles,
        h \in {Given(u.text) : u \in KnownURLs} \cup {Absent},
        d \in LinkDates}

InitLink ==
    /\ bookmarks = <<>>
    /\ folders = <<>>
    /\ isSupported = FALSE
    /\ pc = "idle"
    /\ file = NoFile
    /\ last = NoCall
    /\ q = NoQuery
    /\ src \in NativeLinkSources \cup HTMLLinkSources
    /\ out = Absent
    /\ app = NoApp

NextLink == ParseBookmarkTree \/ ParseHTMLBookmarks

SpecLink == InitLink /\ [][NextLink]_vars

\* The parser has returned
Returned == ~IsAbsent(out) /\ ~out.v.threw

NoDuplicates(arr) == \A i, j \in 1..Len(arr) : i # j => arr[i] # arr[j]

\* C11: every bookmark a parser produces carries no label twice in `tags`.
C11_TagsHaveNoDuplicates ==
    Returned => \A i \in 1..Len(out.v.bookmarks) : NoDuplicates(out.v.bookmarks[i].tags)

\* A url whose domain matches the "youtube" and the "bilibili" rule, and a
\* title matching two title rules: the video label occurs once
C11_Witness ==
    /\ Returned
    /\ out.v.bookmarks[1].url = VIDEO_URL
    /\ out.v.bookmarks[1].tags = <<t_shipin, t_wendang, t_boke>>

\* C12 as claimed: every Bookmark a parser produces has a non-empty domain.
C12_DomainNonEmpty ==
    Returned => \A i \in 1..Len(out.v.bookmarks) : out.v.bookmarks[i].domain # <<>>

\* C13: the parse of a source with any url returns; the domain of each
\* bookmark is the hostname of its url when the URL parser accepts the url and
\* the url itself when not, and the entry after it is parsed as well.
C13_DomainIsHostOrRaw ==
    ~IsAbsent(out) /\ (src.kind = "native" => ~IsAbsent(src.nodes[1].title)) =>
        /\ ~out.v.threw
        /\ Len(out.v.bookmarks) = 2
        /\ \A i \in 1..Len(out.v.bookmarks) :
              \E k \in KnownURLs :
                 /\ k.text = out.v.bookmarks[i].url
                 /\ out.v.bookmarks[i].domain = IF k.parses THEN k.host ELSE k.text

\* "not a url" is kept as the domain, and the next entry has its hostname
C13_Witness ==
    /\ Returned
    /\ out.v.bookmarks[1].url = NOT_A_URL
    /\ out.v.bookmarks[1].domain = NOT_A_URL
    /\ out.v.bookmarks[2].domain = <<"g", "i", "t", "h", "u", "b", ".", "c", "o", "m">>

\* The first entry of the source provides no title
NoTitle ==
    IF src.kind = "native" THEN Falsy(src.nodes[1].title)
    ELSE trim(src.root.v.children[1].children[1].text) = <<>>

\* C20 as claimed: whatever title, HREF or date the first entry lacks, the
\* parser returns; the Bookmark of an entry without title has the placeholder
\* as title, and the entry after it is parsed as usual.
C20_MissingTitleNeverFails ==
    ~IsAbsent(out) =>
        /\ ~out.v.threw
        /\ Len(out.v.bookmarks) = 2
        /\ NoTitle => out.v.bookmarks[1].title = UNTITLED
        /\ out.v.bookmarks[2].title = <<"x">>
        /\ out.v.bookmarks[2].domain = <<"g", "i", "t", "h", "u", "b", ".", "c", "o", "m">>

\* C21 as claimed: the url of every Bookmark of either parser holds no
\* backtick and neither starts nor ends with white space.
C21_UrlIsClean ==
    Returned =>
        \A i \in 1..Len(out.v.bookmarks) :
            /\ \A k \in 1..Len(out.v.bookmarks[i].url) : out.v.bookmarks[i].url[k] # BACKTICK
            /\ trim(out.v.bookmarks[i].url) = out.v.bookmarks[i].url

(***************************************************************************)
(* SpecJSON: parseJSONBookmarks is handed a JSON text                      *)
(***************************************************************************)

StoredFolder ==
    [id |-> <<8>>, title |-> <<"A">>, path |-> <<"A">>, parentPath |-> <<>>,
     children |-> <<StoredBookmark>>]

RootsOf(bar, other, synced) == [bookmark_bar |-> bar, other |-> other, synced |-> synced]

\* The `roots` member: the three root containers, some of them missing, or a
\* leaf without title
RootsMembers ==
    { Absent,
      Given(Roots(NativeContainer(<<3>>, Given(<<"A">>), <<>>))),
      Given(Roots(Absent)),
      Given(RootsOf(Absent, Absent, Absent)),
      Given(RootsOf(NativeContainer(<<1>>, Given(<<"A">>), <<NativeLeaf(<<1, 1>>, Absent)>>),
                    NativeContainer(<<2>>, Given(OTHER_BOOKMARKS), <<>>),
                    NativeContainer(<<3>>, Given(<<"A">>), <<>>))) }

BookmarksMembers ==
    { Absent, Given(JString(<<>>)), Given(JString(<<"n", "o">>)), Given(JArray(<<>>)),
      Given(JArray(<<StoredBookmark>>)) }

FoldersMembers == {Absent, Given(JArray(<<>>)), Given(JArray(<<StoredFolder>>))}

JSONSources ==
    {[kind |-> "json", text |-> t] : t \in {MalformedJSON, JSONText(JNull)}}
    \cup {[kind |-> "json", text |-> JSONText(JObject(Absent, Absent, b, f, Absent, r))] :
            b \in BookmarksMembers, f \in FoldersMembers, r \in RootsMembers}

\* parseJSONBookmarks(jsonContent)
ParseJSONBookmarks ==
    /\ out = Absent
    /\ src.kind = "json"
    /\ \E now \in Times : out' = Given(parseJSONBookmarks(src.text, now))
    /\ ParseUnchanged

InitJSON ==
    /\ bookmarks = <<>>
    /\ folders = <<>>
    /\ isSupported = FALSE
    /\ pc = "idle"
    /\ file = NoFile
    /\ last = NoCall
    /\ q = NoQuery
    /\ src \in JSONSources
    /\ out = Absent
    /\ app = NoApp

NextJSON == ParseJSONBookmarks

SpecJSON == InitJSON /\ [][NextJSON]_vars

UNRECOGNIZED == "parsing the JSON file failed: unrecognized JSON bookmark format"

\* The document carries a `bookmarks` array
CarriesBookmarks(data) ==
    data.kind = "object" /\ ~IsAbsent(data.bookmarks) /\ "array" \in DOMAIN data.bookmarks.v

CarriesRoots(data) == data.kind = "object" /\ ~IsAbsent(data.roots)

\* C15 as claimed: of a well-formed JSON text parseJSONBookmarks returns the
\* `bookmarks` array as it is, with `folders` or the empty list, when the
\* document carries a `bookmarks` array; otherwise, when it carries `roots`,
\* what the native-tree parser makes of bookmark_bar, other and synced;
\* otherwise it fails with the unrecognized-format error.
C15_ThreeOutcomes ==
    ~IsAbsent(out) /\ src.kind = "json" /\ ~src.text.malformed =>
        LET data == src.text.value
        IN  IF CarriesBookmarks(data)
            THEN /\ ~out.v.threw
                 /\ out.v.bookmarks = data.bookmarks.v.array
                 /\ out.v.folders = IF IsAbsent(data.folders) THEN <<>> ELSE data.folders.v.array
            ELSE IF CarriesRoots(data)
            THEN \E now \in Times :
                    \E r \in {parseBookmarkTree(<<data.roots.v.bookmark_bar, data.roots.v.other,
                                                  data.roots.v.synced>>, now)} :
                       IF r.threw THEN out.v.threw ELSE out.v = r
            ELSE out.v.threw /\ out.v.error = UNRECOGNIZED

\* The same, for a document that is not `null`
C15_ExceptNull ==
    ~IsAbsent(out) /\ src.kind = "json" /\ src.text # JSONText(JNull) => C15_ThreeOutcomes

(***************************************************************************)
(* AIOrganizeAPI: the stand-in for the AI call rewrites title, description *)
(* and tags of every bookmark after a delay.                               *)
(***************************************************************************)

TITLE_LIMIT == 50

\* title.replace(/\s+/g, ' ')
RECURSIVE CollapseSpaces(_)
CollapseSpaces(s) ==
    IF s = <<>> THEN <<>>
    ELSE IF Head(s) \in WhiteSpace
    THEN IF Len(s) > 1 /\ s[2] \in WhiteSpace THEN CollapseSpaces(Tail(s))
         ELSE <<" ">> \o CollapseSpaces(Tail(s))
    ELSE <<Head(s)>> \o CollapseSpaces(Tail(s))

\* optimizeTitle(title): .replace(/\s+/g, ' ').trim().replace(/^(.{50}).*/, '$1...')
optimizeTitle(title) ==
    LET t == trim(CollapseSpaces(title))
    IN  IF Len(t) >= TITLE_LIMIT THEN SubSeq(t, 1, TITLE_LIMIT) \o <<".", ".", ".">> ELSE t

\* The table `descriptions` of optimizeDescription; <<>> for a domain it lacks
KnownDescription(domain) ==
    IF domain = <<"g", "i", "t", "h", "u", "b", ".", "c", "o", "m">> THEN <<"<kaiyuan-daima-tuoguan>">>
    ELSE IF domain = <<"s", "t", "a", "c", "k", "o", "v", "e", "r", "f", "l", "o", "w", ".", "c", "o", "m">> THEN <<"<chengxuyuan-wenda-shequ>">>
    ELSE IF domain = <<"d", "e", "v", "e", "l", "o", "p", "e", "r", ".", "m", "o", "z", "i", "l", "l", "a", ".", "o", "r", "g">> THEN <<"<web-kaifa-wendang>">>
    ELSE IF domain = <<"v", "u", "e", "j", "s", ".", "o", "r", "g">> THEN <<"<vue-guanfang-wendang>">>
    ELSE IF domain = <<"r", "e", "a", "c", "t", "j", "s", ".", "o", "r", "g">> THEN <<"<react-guanfang-wendang>">>
    ELSE <<>>

\* optimizeDescription(title, url): descriptions[domain] || `${title} - 来自 ${domain}`
optimizeDescription(title, url) ==
    LET domain == extractDomain(url)
    IN  IF KnownDescription(domain) # <<>> THEN KnownDescription(domain)
        ELSE title \o <<" ", "-", " ", "<lai>", "<zi>", " ">> \o domain

\* The table `tagSuggestions` of optimizeTags; <<>> for a domain it lacks
TagSuggestions(domain) ==
    IF domain = <<"g", "i", "t", "h", "u", "b", ".", "c", "o", "m">> THEN <<<<"<kaiyuan>">>, <<"<daima>">>, <<"G", "i", "t">>>>
    ELSE IF domain = <<"s", "t", "a", "c", "k", "o", "v", "e", "r", "f", "l", "o", "w", ".", "c", "o", "m">> THEN <<t_wenda, t_biancheng, <<"<jishu>">>>>
    ELSE IF domain = <<"d", "e", "v", "e", "l", "o", "p", "e", "r", ".", "m", "o", "z", "i", "l", "l", "a", ".", "o", "r", "g">> THEN <<t_wendang, <<"W", "e", "b">>, <<"A", "P", "I">>>>
    ELSE IF domain = <<"v", "u", "e", "j", "s", ".", "o", "r", "g">> THEN <<<<"V", "u", "e">>, <<"<qianduan>">>, <<"<kuangjia>">>>>
    ELSE IF domain = <<"r", "e", "a", "c", "t", "j", "s", ".", "o", "r", "g">> THEN <<<<"R", "e", "a", "c", "t">>, <<"<qianduan>">>, <<"<zujian>">>>>
    ELSE <<>>

\* optimizeTags(title, url, existingTags)
optimizeTags(title, url, existingTags) ==
    LET titleLower == toLowerCase(title)
        hit(word) == includes(titleLower, word)
    IN  unique(existingTags \o TagSuggestions(extractDomain(url))
               \o PushIf(hit(<<"t", "u", "t", "o", "r", "i", "a", "l">>), t_jiaocheng)
               \o PushIf(hit(<<"g", "u", "i", "d", "e">>), <<"<zhi>", "<nan>">>)
               \o PushIf(hit(<<"a", "p", "i">>), <<"A", "P", "I">>)
               \o PushIf(hit(<<"d", "o", "c">>), t_wendang))

\* mockOrganizeBookmarks(bookmarks), once its timer has fired
mockOrganizeBookmarks(bms) ==
    [i \in 1..Len(bms) |->
        [bms[i] EXCEPT !.title = optimizeTitle(bms[i].title),
                       !.description = optimizeDescription(bms[i].title, bms[i].url),
                       !.tags = optimizeTags(bms[i].title, bms[i].url, bms[i].tags)]]

(***************************************************************************)
(* SpecApp: the page of BookmarkManager.  The user activates its buttons;  *)
(* each call of getBookmarks or importBookmarks of the manager is a flow   *)
(* that is suspended on the native accessor, the file dialog or the read   *)
(* of a file until that settles.                                           *)
(***************************************************************************)

MaxFlows == 2

GET_MODAL == "getBookmarksModal"

IMPORT_MODAL == "importExportModal"

Remove(seq, i) == SubSeq(seq, 1, i - 1) \o SubSeq(seq, i + 1, Len(seq))

OneLinkDocument ==
    [kind |-> "html",
     root |-> Given(DL(<<DT(<<Element("A", <<>>, <<"x">>, Given(GITHUB_URL), Given(5))>>)>>))]

CanonicalText ==
    JSONText(JObject(Absent, Absent, Given(JArray(<<StoredBookmark>>)), Absent, Absent, Absent))

\* What chrome.bookmarks.getTree passes to the callback of a flow
AppReplies ==
    { [lastError |-> Given("runtime error"), nodes |-> <<>>],
      [lastError |-> Absent, nodes |-> ChromeTree(<<NativeLeaf(<<1>>, Given(<<"x">>))>>)],
      [lastError |-> Absent, nodes |-> ChromeTree(<<NativeLeaf(<<1>>, Absent)>>)] }

\* The files picked in the dialog of getBookmarksFromFile
AppFiles ==
    { File(HTML_NAME, HTMLFile(OneLinkDocument)),
      File(JSON_NAME, JSONFile(CanonicalText)),
      File(TEXT_NAME, JSONFile(CanonicalText)) }

\* The files selected in #importFile
ImportFiles ==
    { File(JSON_NAME, JSONFile(CanonicalText)),
      File(JSON_NAME, JSONFile(JSONText(JObject(Absent, Absent, Given(JString(<<"n", "o">>)),
                                                Absent, Absent, Absent)))),
      File(HTML_NAME, HTMLFile(OneLinkDocument)) }

AppUnchanged == UNCHANGED <<isSupported, pc, file, last, q, src, out>>

\* this.showLoading(); this.hideModal(modalId); and the call is in flight
Started(modalId, flow) ==
    [app EXCEPT !.loading = TRUE, !.modals = @ \ {modalId}, !.flows = Append(@, flow)]

\* The rest of getBookmarks or importBookmarks of the manager once the call
\* of flow i has returned `ret`; finally hideLoading()
Finished(a, i, ret) ==
    LET shown == IF ret.kind = "returned" /\ ret.success
                 THEN [a EXCEPT !.currentBookmarks = ret.data.bookmarks,
                                !.currentFolders = ret.data.folders,
                                !.filteredBookmarks = ret.data.bookmarks,
                                !.stored = [bookmarks |-> ret.data.bookmarks,
                                            folders |-> ret.data.folders]]
                 ELSE a
    IN  IF ret.kind = "uncaught"
        THEN [a EXCEPT !.flows[i].at = "never"]
        ELSE [shown EXCEPT !.loading = FALSE, !.flows = Remove(@, i)]

\* BookmarkManager.getBookmarks up to the await
ManagerGetBookmarks ==
    Started(GET_MODAL, [op |-> "getBookmarks", file |-> NoFile,
                        at |-> IF isSupported THEN "getTree" ELSE "dialog"])

\* click on #getBookmarksBtn: showGetBookmarksModal
ShowGetBookmarksModal ==
    /\ Len(app.flows) < MaxFlows
    /\ app' = IF isSupported THEN ManagerGetBookmarks
              ELSE [app EXCEPT !.modals = @ \cup {GET_MODAL}]
    /\ UNCHANGED <<bookmarks, folders>>
    /\ AppUnchanged

\* click on #confirmGetBookmarks, a button of the modal
ConfirmGetBookmarks ==
    /\ GET_MODAL \in app.modals
    /\ Len(app.flows) < MaxFlows
    /\ app' = ManagerGetBookmarks
    /\ UNCHANGED <<bookmarks, folders>>
    /\ AppUnchanged

\* click on #importExportBtn: showImportExportModal
ShowImportExportModal ==
    /\ IMPORT_MODAL \notin app.modals
    /\ app' = [app EXCEPT !.modals = @ \cup {IMPORT_MODAL}]
    /\ UNCHANGED <<bookmarks, folders>>
    /\ AppUnchanged

\* click on a close button or the backdrop, or Escape: hideModal
HideModal ==
    /\ \E m \in app.modals : app' = [app EXCEPT !.modals = @ \ {m}]
    /\ UNCHANGED <<bookmarks, folders>>
    /\ AppUnchanged

\* change of #importFile: handleFileSelect
HandleFileSelect ==
    /\ IMPORT_MODAL \in app.modals
    /\ \E f \in ImportFiles :
          app' = [app EXCEPT !.picked = f,
                             !.importEnabled = @ \/ endsWith(toLowerCase(f.name), JSON_EXT)]
    /\ UNCHANGED <<bookmarks, folders>>
    /\ AppUnchanged

\* click on #importBtn: BookmarkManager.importBookmarks up to the await
ManagerImportBookmarks ==
    /\ IMPORT_MODAL \in app.modals
    /\ app.importEnabled
    /\ Len(app.flows) < MaxFlows
    /\ app' = IF app.picked = NoFile THEN app
              ELSE Started(IMPORT_MODAL, [op |-> "importBookmarks", file |-> app.picked,
                                          at |-> "reading"])
    /\ UNCHANGED <<bookmarks, folders>>
    /\ AppUnchanged

\* The native accessor calls back a flow of getBookmarks
AppChromeCallback ==
    /\ \E i \in 1..Len(app.flows) :
          /\ app.flows[i].at = "getTree"
          /\ \E reply \in AppReplies, now \in Times :
                \E result \in {parseBookmarkTree(reply.nodes, now)} :
                   LET o == getChromeBookmarks(reply, result, bookmarks, folders)
                   IN  /\ Ingested(o)
                       /\ app' = Finished(app, i, o.ret)
    /\ AppUnchanged

\* The file dialog of a flow is cancelled, or closed without a file
AppFileCancel ==
    /\ \E i \in 1..Len(app.flows) :
          /\ app.flows[i].at = "dialog"
          /\ \E message \in {"the user cancelled the file selection", "no file selected"} :
                app' = Finished(app, i, Fail(Given(message)))
    /\ UNCHANGED <<bookmarks, folders>>
    /\ AppUnchanged

\* A file is picked in the file dialog of a flow
AppFileChange ==
    /\ \E i \in 1..Len(app.flows) :
          /\ app.flows[i].at = "dialog"
          /\ \E f \in AppFiles :
                app' = [app EXCEPT !.flows[i].at = "reading", !.flows[i].file = f]
    /\ UNCHANGED <<bookmarks, folders>>
    /\ AppUnchanged

\* The read of the file of a flow fails
AppReadError ==
    /\ \E i \in 1..Len(app.flows) :
          /\ app.flows[i].at = "reading"
          /\ app' = [Finished(app, i, Fail(Absent)) EXCEPT
                        !.picked = IF app.flows[i].op = "importBookmarks" THEN NoFile ELSE @]
    /\ UNCHANGED <<bookmarks, folders>>
    /\ AppUnchanged

\* The file of a flow of getBookmarks is read: it is parsed
AppReadDone ==
    /\ \E i \in 1..Len(app.flows) :
          /\ app.flows[i].at = "reading"
          /\ app.flows[i].op = "getBookmarks"
          /\ \E tape \in IdTapes, now \in Times :
                \E result \in {ParseFile(app.flows[i].file, tape, now)} :
                   LET o == getBookmarksFromFile(result, bookmarks, folders)
                   IN  /\ Ingested(o)
                       /\ app' = Finished(app, i, o.ret)
    /\ AppUnchanged

\* The file of a flow of importBookmarks is read: BookmarkAPI.importBookmarks
\* is called with the content; finally fileInput.value = ''
AppImportDone ==
    /\ \E i \in 1..Len(app.flows) :
          /\ app.flows[i].at = "reading"
          /\ app.flows[i].op = "importBookmarks"
          /\ LET o == importBookmarks(app.flows[i].file.content.json, bookmarks, folders)
             IN  /\ Ingested(o)
                 /\ app' = [Finished(app, i, o.ret) EXCEPT !.picked = NoFile]
    /\ AppUnchanged

\* The two keys of localStorage the manager writes
NothingStored == [bookmarks |-> <<>>, folders |-> <<>>]

\* The manager after its constructor, loadStoredData included
Constructed(stored, enabled) ==
    [currentBookmarks |-> stored.bookmarks,
     currentFolders |-> IF stored.bookmarks # <<>> THEN stored.folders ELSE <<>>,
     filteredBookmarks |-> stored.bookmarks,
     selectedFolder |-> Absent, searchKeyword |-> <<>>,
     stored |-> stored, organizing |-> <<>>,
     modals |-> {}, picked |-> NoFile, importEnabled |-> enabled,
     loading |-> FALSE, flows |-> <<>>]

\* The page after the constructor with nothing stored; whether #importBtn
\* starts disabled is set by the markup
InitApp ==
    /\ bookmarks = <<>>
    /\ folders = <<>>
    /\ isSupported \in BOOLEAN
    /\ pc = "idle"
    /\ file = NoFile
    /\ last = NoCall
    /\ q = NoQuery
    /\ src = Absent
    /\ out = Absent
    /\ \E enabled \in BOOLEAN : app = Constructed(NothingStored, enabled)

NextApp ==
    \/ ShowGetBookmarksModal
    \/ ConfirmGetBookmarks
    \/ ShowImportExportModal
    \/ HideModal
    \/ HandleFileSelect
    \/ ManagerImportBookmarks
    \/ AppChromeCallback
    \/ AppFileCancel
    \/ AppFileChange
    \/ AppReadError
    \/ AppReadDone
    \/ AppImportDone

SpecApp == InitApp /\ [][NextApp]_vars

\* C14 as claimed: at most one ingestion is in flight; no ingestion is started
\* while an earlier one has not resolved.
C14_OneIngestionInFlight == Len(app.flows) <= 1

\* C28 as claimed: once the native accessor has called back, or the file
\* dialog was answered, the promise of getBookmarks settles and getBookmarks
\* of the manager reaches hideLoading: no call is left with a promise that
\* nothing will settle any more.
C28_IngestionSettles ==
    \A i \in 1..Len(app.flows) : app.flows[i].at # "never"

(***************************************************************************)
(* SpecView: the page in the extension, with what it displays.  The user   *)
(* fetches and imports as in SpecApp, searches, selects folders and tags,  *)
(* has the bookmarks organized and exports them.                           *)
(***************************************************************************)

MaxOrganize == 1

MaxViewFlows == 1

ORGANIZE_MODAL == "organizeModal"

\* A tree with a folder in a folder: A holds a bookmark and B, B holds a
\* bookmark, and a bookmark lies at the top
ViewTree ==
    ChromeTree(<<NativeContainer(<<1>>, Given(<<"A">>),
                    <<NativeLink(<<1, 1>>, Given(<<"x">>), Given(VIDEO_URL), Absent),
                      NativeContainer(<<1, 2>>, Given(<<"B">>),
                                      <<NativeLink(<<1, 2, 1>>, Given(<<"x", " ", " ", "y">>),
                                                   Given(VIDEO_URL), Absent)>>)>>),
                 NativeLink(<<2>>, Given(<<"x">>), Given(VIDEO_URL), Absent)>>)

ViewReplies ==
    { [lastError |-> Given("runtime error"), nodes |-> <<>>],
      [lastError |-> Absent, nodes |-> ViewTree] }

\* What was stored by an earlier visit of the page
StoredModels == {NothingStored, [bookmarks |-> <<StoredBookmark>>, folders |-> <<>>]}

\* The values of #searchInput
SearchInputs == {<<>>, <<" ", "B">>}

\* The files selected in #importFile
ViewImportFiles ==
    { File(JSON_NAME, JSONFile(CanonicalText)),
      File(JSON_NAME, JSONFile(JSONText(JObject(Absent, Absent, Given(JString(<<"n", "o">>)),
                                                Absent, Absent, Absent)))) }

\* The values of #apiKey
ApiKeys == {<<>>, <<"k">>}

\* applyFilters()
applyFilters(a) ==
    LET all      == a.currentBookmarks
        searched == IF a.searchKeyword # <<>>
                    THEN searchBookmarks(Given(a.searchKeyword), Given(all), bookmarks)
                    ELSE all
        filtered == IF ~Falsy(a.selectedFolder)
                    THEN filterByFolder(a.selectedFolder, Given(searched), bookmarks)
                    ELSE searched
    IN  [a EXCEPT !.filteredBookmarks = filtered]

ViewUnchanged == UNCHANGED <<bookmarks, folders, isSupported, pc, file, last, q, src, out>>

\* click on #searchBtn, or the debounced input of #searchInput: handleSearch
HandleSearch ==
    /\ \E keyword \in SearchInputs :
          app' = applyFilters([app EXCEPT !.searchKeyword = trim(keyword)])
    /\ ViewUnchanged

\* click on an item of the folder list, which renderFolders drew from
\* currentFolders with the folder's title: selectFolder
SelectFolder ==
    /\ \E i \in 1..Len(app.currentFolders) :
          LET folderName == app.currentFolders[i].title
          IN  app' = applyFilters([app EXCEPT !.selectedFolder =
                                      IF @ = Given(folderName) THEN Absent
                                      ELSE Given(folderName)])
    /\ ViewUnchanged

\* click on a tag of a displayed bookmark: filterByTag
ManagerFilterByTag ==
    /\ \E j \in 1..Len(app.filteredBookmarks) :
          \E k \in 1..Len(app.filteredBookmarks[j].tags) :
             app' = applyFilters([app EXCEPT !.searchKeyword = app.filteredBookmarks[j].tags[k]])
    /\ ViewUnchanged

\* click on #homeBtn: goHome
GoHome ==
    /\ app' = applyFilters([app EXCEPT !.selectedFolder = Absent, !.searchKeyword = <<>>])
    /\ ViewUnchanged

\* click on #organizeBtn: showOrganizeModal
ShowOrganizeModal ==
    /\ ORGANIZE_MODAL \notin app.modals
    /\ app' = IF app.currentBookmarks = <<>> THEN app
              ELSE [app EXCEPT !.modals = @ \cup {ORGANIZE_MODAL}]
    /\ ViewUnchanged

\* click on #confirmOrganize: organizeBookmarks up to the await; the call of
\* the AI stand-in holds the bookmarks it was given until its timer fires
OrganizeBookmarks ==
    /\ ORGANIZE_MODAL \in app.modals
    /\ Len(app.organizing) < MaxOrganize
    /\ \E apiKey \in ApiKeys :
          app' = IF trim(apiKey) = <<>> THEN app
                 ELSE [app EXCEPT !.loading = TRUE, !.modals = @ \ {ORGANIZE_MODAL},
                                  !.organizing = Append(@, app.currentBookmarks)]
    /\ ViewUnchanged

\* The timer of mockOrganizeBookmarks fires: the rest of organizeBookmarks
OrganizeDone ==
    /\ app.organizing # <<>>
    /\ \E data \in {mockOrganizeBookmarks(Head(app.organizing))} :
          app' = [app EXCEPT !.currentBookmarks = data,
                             !.filteredBookmarks = data,
                             !.stored.bookmarks = data,
                             !.loading = FALSE,
                             !.organizing = Tail(@)]
    /\ ViewUnchanged

\* click on #exportBtn: exportBookmarks of the manager; the text of
\* bookmarkAPI.exportBookmarks() is downloaded and the modal hidden
ManagerExportBookmarks ==
    /\ IMPORT_MODAL \in app.modals
    /\ app' = IF app.currentBookmarks = <<>> THEN app
              ELSE [app EXCEPT !.modals = @ \ {IMPORT_MODAL}]
    /\ ViewUnchanged

\* click on #getBookmarksBtn in the extension: showGetBookmarksModal calls
\* getBookmarks, which runs up to the await
ViewGetBookmarks ==
    /\ Len(app.flows) < MaxViewFlows
    /\ app' = ManagerGetBookmarks
    /\ ViewUnchanged

\* The native accessor calls back a flow of getBookmarks
ViewChromeCallback ==
    /\ \E i \in 1..Len(app.flows) :
          /\ app.flows[i].at = "getTree"
          /\ \E reply \in ViewReplies, now \in Times :
                \E result \in {parseBookmarkTree(reply.nodes, now)} :
                   LET o == getChromeBookmarks(reply, result, bookmarks, folders)
                   IN  /\ Ingested(o)
                       /\ app' = Finished(app, i, o.ret)
    /\ AppUnchanged

\* click on #importBtn with a file selected in #importFile: importBookmarks
\* of the manager up to the await
ViewImportBookmarks ==
    /\ IMPORT_MODAL \in app.modals
    /\ Len(app.flows) < MaxViewFlows
    /\ \E f \in ViewImportFiles :
          app' = Started(IMPORT_MODAL, [op |-> "importBookmarks", file |-> f, at |-> "reading"])
    /\ ViewUnchanged

\* The page in the extension after the constructor
InitView ==
    /\ bookmarks = <<>>
    /\ folders = <<>>
    /\ isSupported = TRUE
    /\ pc = "idle"
    /\ file = NoFile
    /\ last = NoCall
    /\ q = NoQuery
    /\ src = Absent
    /\ out = Absent
    /\ \E stored \in StoredModels : app = Constructed(stored, TRUE)

NextView ==
    \/ ViewGetBookmarks
    \/ ViewChromeCallback
    \/ ShowImportExportModal
    \/ HideModal
    \/ ViewImportBookmarks
    \/ AppImportDone
    \/ HandleSearch
    \/ SelectFolder
    \/ ManagerFilterByTag
    \/ GoHome
    \/ ShowOrganizeModal
    \/ OrganizeBookmarks
    \/ OrganizeDone
    \/ ManagerExportBookmarks

SpecView == InitView /\ [][NextView]_vars

\* C24 as claimed: whenever exportBookmarks of the manager would proceed, the
\* model of bookmarkAPI, which it serializes, is the model the manager holds.
C24_ExportedModelIsCurrent ==
    app.currentBookmarks # <<>> =>
        bookmarks = app.currentBookmarks /\ folders = app.currentFolders

\* C25 as claimed: the displayed list is always what the current search
\* keyword and the current selected folder leave of currentBookmarks.
C25_DisplayedListIsFiltered ==
    app.filteredBookmarks = applyFilters(app).filteredBookmarks

\* C26 as claimed: when an organize call resolves after an ingestion has
\* replaced the bookmarks it was started with, the bookmarks the manager holds
\* and the persisted ones stay those of the ingestion.
C26_OrganizeKeepsLaterIngestion ==
    [][ (/\ Len(app'.organizing) < Len(app.organizing)
         /\ app.currentBookmarks # Head(app.organizing))
        => (/\ app'.currentBookmarks = app.currentBookmarks
            /\ app'.stored.bookmarks = app.stored.bookmarks) ]_vars

\* The current bookmarks filed under a path
CurrentIn(a, path) ==
    FilterIdx(a.currentBookmarks,
              {j \in 1..Len(a.currentBookmarks) : a.currentBookmarks[j].folder = path}, 1)

\* C27 as claimed: with no search keyword, a step that selects a folder of the
\* sidebar leaves exactly the current bookmarks whose folder is that Folder's
\* path, at any depth, and a step that takes the selection off leaves all the
\* current bookmarks.
C27_SelectedFolderShowsItsBookmarks ==
    [][ (app'.selectedFolder # app.selectedFolder /\ app'.searchKeyword = <<>>)
        => IF IsAbsent(app'.selectedFolder)
           THEN app'.filteredBookmarks = app'.currentBookmarks
           ELSE \E i \in 1..Len(app.currentFolders) :
                   /\ app.currentFolders[i].title = app'.selectedFolder.v
                   /\ app'.filteredBookmarks = CurrentIn(app', app.currentFolders[i].path) ]_vars

(***************************************************************************)
(* SpecDOM: Utils.DOM.show, hide and toggle on the elements of the page,   *)
(* with the timers hide leaves behind.  app maps each element to its       *)
(* class `show`, its style.display, the timers of hide not yet fired, and  *)
(* the last of show and hide called on it.                                 *)
(***************************************************************************)
MaxTimers == 2

LOADING_OVERLAY == "loadingOverlay"

Elements == {LOADING_OVERLAY, IMPORT_MODAL, ORGANIZE_MODAL}

\* An element of index.html before any call: no class `show`, no inline display
Untouched == [classShow |-> FALSE, display |-> "", timers |-> 0, lastCall |-> "none"]

\* The element after the body of show
Shown(e) == [e EXCEPT !.display = "", !.classShow = TRUE, !.lastCall = "show"]

\* The element after the body of hide: the timer is set, never cleared
Hidden(e) == [e EXCEPT !.classShow = FALSE, !.timers = @ + 1, !.lastCall = "hide"]

DOMUnchanged == UNCHANGED <<bookmarks, folders, isSupported, pc, file, last, q, src, out>>

show ==
    /\ \E el \in Elements : app' = [app EXCEPT ![el] = Shown(@)]
    /\ DOMUnchanged

hide ==
    /\ \E el \in Elements :
          /\ app[el].timers < MaxTimers
          /\ app' = [app EXCEPT ![el] = Hidden(@)]
    /\ DOMUnchanged

toggle ==
    /\ \E el \in Elements :
          IF app[el].classShow
          THEN /\ app[el].timers < MaxTimers
               /\ app' = [app EXCEPT ![el] = Hidden(@)]
          ELSE app' = [app EXCEPT ![el] = Shown(@)]
    /\ DOMUnchanged

\* The callback hide handed to setTimeout runs, 300 ms after its call
HideTimer ==
    /\ \E el \in Elements :
          /\ app[el].timers > 0
          /\ app' = [app EXCEPT ![el].display = "none", ![el].timers = @ - 1]
    /\ DOMUnchanged

InitDOM ==
    /\ bookmarks = <<>>
    /\ folders = <<>>
    /\ isSupported = FALSE
    /\ pc = "idle"
    /\ file = NoFile
    /\ last = NoCall
    /\ q = NoQuery
    /\ src = Absent
    /\ out = Absent
    /\ app = [el \in Elements |-> Untouched]

NextDOM == show \/ hide \/ toggle \/ HideTimer

SpecDOM == InitDOM /\ [][NextDOM]_vars

\* C29 as claimed: while the last of show and hide called on an element is
\* show, the element is displayed: it has the class `show` and its
\* style.display is not 'none', whatever timers earlier calls of hide left.
C29_ShowWinsOverEarlierHide ==
    \A el \in Elements :
        app[el].lastCall = "show" => (app[el].classShow /\ app[el].display # "none")

(***************************************************************************)
(* SpecDebounce: the handler Throttle.debounce returns, as bindEvents puts *)
(* it on the search input.  app holds the clock in ms, the timers of the   *)
(* window not yet fired, the timeoutId of the closure, the calls of the    *)
(* returned function and the invocations of the wrapped one.               *)
(***************************************************************************)
MaxCalls == 3

MaxClock == 900

\* delay, as bindEvents passes it and as debounce defaults it
DELAY == 300

\* The values the search input holds when an input event is dispatched
Typed == {<<"B">>, <<"B", "o">>}

\* The time that passes between two steps
Elapses == {DELAY \div 3, DELAY}

\* The closure debounce returns, before its first call, at a time now
debounce(now) ==
    [now |-> now, timers |-> {}, nextId |-> 1, timeoutId |-> Absent,
     calls |-> <<>>, invoked |-> <<>>]

\* setTimeout(() => func.apply(this, args), delay) without the clearTimeout
\* before it
WrappedKeepsTimer(d, args) ==
    [d EXCEPT !.timers = @ \cup {[id |-> d.nextId, args |-> args, due |-> d.now + DELAY]},
              !.timeoutId = Given(d.nextId),
              !.nextId = @ + 1,
              !.calls = Append(@, [args |-> args, at |-> d.now])]

\* The function debounce returns, called with args: clearTimeout(timeoutId),
\* then timeoutId = setTimeout(() => func.apply(this, args), delay)
Wrapped(d, args) ==
    [d EXCEPT !.timers = {t \in @ : IsAbsent(d.timeoutId) \/ t.id # d.timeoutId.v}
                            \cup {[id |-> d.nextId, args |-> args, due |-> d.now + DELAY]},
              !.timeoutId = Given(d.nextId),
              !.nextId = @ + 1,
              !.calls = Append(@, [args |-> args, at |-> d.now])]

DebounceUnchanged == UNCHANGED <<bookmarks, folders, isSupported, pc, file, last, q, src, out>>

\* An input event on #searchInput calls the debounced handler
Input ==
    /\ Len(app.calls) < MaxCalls
    /\ \E args \in Typed : app' = Wrapped(app, args)
    /\ DebounceUnchanged

\* A timer that is due runs its callback: func.apply(this, args)
TimerFires ==
    /\ \E t \in app.timers :
          /\ t.due <= app.now
          /\ app' = [app EXCEPT !.timers = @ \ {t},
                                !.invoked = Append(@, [args |-> t.args, at |-> app.now])]
    /\ DebounceUnchanged

\* Time passes, up to the moment the next timer is due
Elapse ==
    /\ \E d \in Elapses :
          /\ app.now + d <= MaxClock
          /\ \A t \in app.timers : app.now + d <= t.due
          /\ app' = [app EXCEPT !.now = @ + d]
    /\ DebounceUnchanged

InitDebounce ==
    /\ bookmarks = <<>>
    /\ folders = <<>>
    /\ isSupported = FALSE
    /\ pc = "idle"
    /\ file = NoFile
    /\ last = NoCall
    /\ q = NoQuery
    /\ src = Absent
    /\ out = Absent
    /\ app = debounce(0)

NextDebounce == Input \/ TimerFires \/ Elapse

SpecDebounce == InitDebounce /\ [][NextDebounce]_vars

\* The calls so far form one burst: each comes less than delay after the
\* one before it
IsBurst(calls) ==
    /\ calls # <<>>
    /\ \A i \in 1..(Len(calls) - 1) : calls[i + 1].at - calls[i].at < DELAY

\* C30 as claimed: while the calls of the debounced function form one burst,
\* the wrapped function has been invoked at most once, any invocation carries
\* the arguments of the last call and comes no sooner than delay after it, and
\* until that invocation exactly one timer, with those arguments and due delay
\* after the last call, is waiting to make it.
C30_BurstInvokesOnceWithLastArgs ==
    IsBurst(app.calls) =>
        LET lastCall == app.calls[Len(app.calls)]
        IN  /\ Len(app.invoked) <= 1
            /\ \A i \in 1..Len(app.invoked) :
                  /\ app.invoked[i].args = lastCall.args
                  /\ app.invoked[i].at >= lastCall.at + DELAY
            /\ IF app.invoked = <<>>
               THEN \E t \in app.timers :
                       /\ app.timers = {t}
                       /\ t.args = lastCall.args
                       /\ t.due = lastCall.at + DELAY
               ELSE app.timers = {}

\* A burst of calls with different values, answered by the one invocation
C30_Witness ==
    /\ IsBurst(app.calls)
    /\ Len(app.calls) = MaxCalls
    /\ app.calls[1].args # app.calls[Len(app.calls)].args
    /\ app.calls[1].at < app.calls[Len(app.calls)].at
    /\ Len(app.invoked) = 1

====
